---- MODULE Spec2Model ----
(***************************************************************************)
(* Brick streaming core of voxel-rs: the BrickmapManager of                *)
(* src/voxel/brickworld/brickmap.rs with its ShadingTableAllocator         *)
(* (shading_table.rs), and the stand-alone BrickmapCache                   *)
(* (brickmap_cache.rs), ShadingTableAllocator and Brickgrid (brickgrid.rs).*)
(***************************************************************************)
EXTENDS Integers, Sequences, FiniteSets, TLC

\* ------------------------------------------------------------------ bounds
\* brickmap_cache_size handed to BrickmapManager::new / BrickmapCache::new.
CacheSize == 2
\* max_requested_brickmaps: request records the feedback buffer can hold.
MaxRequests == 1
\* max_upload_count of the stand-alone BrickmapCache and Brickgrid.
MaxUpload == 1
\* Number of add_entry / remove_entry calls explored on the stand-alone cache.
MaxCacheOps == 4
\* Number of try_alloc / try_dealloc calls explored on the stand-alone allocator.
MaxAllocOps == 4
\* Number of try_alloc(1) calls made after the allocator first returned None.
MaxNoneCalls == 2
\* Number of set / get calls explored on the stand-alone Brickgrid.
MaxGridOps == 3
\* Staged brick payloads a frame of the backlog runs may find and add, in all.
MaxBacklog == 2
\* The frames (render, then update) a run of the frame loop goes through.
MaxFrames == 3

\* ------------------------------------------------------- program constants
\* ShadingTableAllocator::new(4, shading_table_bucket_size)
BucketCount == 4
\* BrickgridFlag discriminants
FlagEmpty == 0
FlagUnloaded == 1
FlagLoading == 2
FlagLoaded == 4
\* A u32 field is held as the signed reading of its 32 bits: arithmetic on it
\* is exact modulo 2^32, and a negative value -n stands for the wrapped value
\* 2^32 - n.  No value of the explored runs comes near 2^31 in magnitude.

\* brickgrid_dims: glam::UVec3
brickgrid_dims == <<2, 2, 1>>
\* shading_table_bucket_size: the renderer sizes the largest bucket (slot
\* size 512) to hold one slot per cache entry (2^24 elements for 32^3 entries).
ElementsPerBucket == 512 * CacheSize


\* --------------------------------------------------------------- Option<T>
None == << >>
Some(x) == << x >>
IsSome(o) == o # << >>
Unwrap(o) == o[1]

\* ------------------------------------------------------------ ShadingBucket
RECURSIVE Pow2(_)
Pow2(n) == IF n = 0 THEN 1 ELSE 2 * Pow2(n - 1)

\* for i in (0..slot_count).rev() { free.push(i) }
ShadingBucket_new(global_offset, slot_count, slot_size) ==
    [global_offset |-> global_offset,
     slot_count    |-> slot_count,
     slot_size     |-> slot_size,
     free          |-> [k \in 1..slot_count |-> slot_count - k],
     used          |-> << >>]

contains_address(bucket, address) ==
    LET min == bucket.global_offset
        max == min + bucket.slot_count * bucket.slot_size
    IN  min <= address /\ address < max

\* Variant: the index handed out stays on the free list.
ShadingBucket_try_alloc_no_pop(bucket) ==
    IF Len(bucket.free) = 0
    THEN [bucket |-> bucket, ret |-> None]
    ELSE LET bucket_index == bucket.free[Len(bucket.free)]
         IN  [bucket |-> [bucket EXCEPT !.used = Append(@, bucket_index)],
              ret    |-> Some(bucket.global_offset + bucket_index * bucket.slot_size)]

\* free.pop()?; used.push(bucket_index)
ShadingBucket_try_alloc(bucket) ==
    IF Len(bucket.free) = 0
    THEN [bucket |-> bucket, ret |-> None]
    ELSE LET bucket_index == bucket.free[Len(bucket.free)]
         IN  [bucket |-> [bucket EXCEPT
                             !.free = SubSeq(@, 1, Len(@) - 1),
                             !.used = Append(@, bucket_index)],
              ret    |-> Some(bucket.global_offset + bucket_index * bucket.slot_size)]

\* Vec::swap_remove: the last element takes the place of the removed one.
swap_remove(s, position) ==
    IF position = Len(s)
    THEN SubSeq(s, 1, Len(s) - 1)
    ELSE [SubSeq(s, 1, Len(s) - 1) EXCEPT ![position] = s[Len(s)]]

\* used.iter().position(|x| *x == bucket_index)
position(s, x) ==
    CHOOSE i \in 1..Len(s) : s[i] = x /\ \A j \in 1..(i - 1) : s[j] # x

\* Variant: the index is pushed on the free list before the check that it is
\* in use.
ShadingBucket_try_dealloc_free_first(bucket, address) ==
    IF ~contains_address(bucket, address)
    THEN [bucket |-> bucket, ret |-> "AddressOutOfRange"]
    ELSE LET local_address == address - bucket.global_offset
             bucket_index  == local_address \div bucket.slot_size
         IN  IF local_address % bucket.slot_size # 0
             THEN [bucket |-> bucket, ret |-> "Misaligned"]
             ELSE IF \A i \in 1..Len(bucket.used) : bucket.used[i] # bucket_index
             THEN [bucket |-> [bucket EXCEPT !.free = Append(@, bucket_index)],
                   ret    |-> "NotAllocated"]
             ELSE [bucket |-> [bucket EXCEPT
                                 !.used = swap_remove(@, position(@, bucket_index)),
                                 !.free = Append(@, bucket_index)],
                   ret    |-> "Ok"]

\* Variant: the freed index goes to the front of the free list, not its end.
ShadingBucket_try_dealloc_push_front(bucket, address) ==
    IF ~contains_address(bucket, address)
    THEN [bucket |-> bucket, ret |-> "AddressOutOfRange"]
    ELSE LET local_address == address - bucket.global_offset
             bucket_index  == local_address \div bucket.slot_size
         IN  IF local_address % bucket.slot_size # 0
             THEN [bucket |-> bucket, ret |-> "Misaligned"]
             ELSE IF \A i \in 1..Len(bucket.used) : bucket.used[i] # bucket_index
             THEN [bucket |-> bucket, ret |-> "NotAllocated"]
             ELSE [bucket |-> [bucket EXCEPT
                                 !.used = swap_remove(@, position(@, bucket_index)),
                                 !.free = <<bucket_index>> \o @],
                   ret    |-> "Ok"]

\* Variant: the freed index is pushed on the free list and stays on the used
\* list.
ShadingBucket_try_dealloc_keeps_used(bucket, address) ==
    IF ~contains_address(bucket, address)
    THEN [bucket |-> bucket, ret |-> "AddressOutOfRange"]
    ELSE LET local_address == address - bucket.global_offset
             bucket_index  == local_address \div bucket.slot_size
         IN  IF local_address % bucket.slot_size # 0
             THEN [bucket |-> bucket, ret |-> "Misaligned"]
             ELSE IF \A i \in 1..Len(bucket.used) : bucket.used[i] # bucket_index
             THEN [bucket |-> bucket, ret |-> "NotAllocated"]
             ELSE [bucket |-> [bucket EXCEPT !.free = Append(@, bucket_index)],
                   ret    |-> "Ok"]

ShadingBucket_try_dealloc(bucket, address) ==
    IF ~contains_address(bucket, address)
    THEN [bucket |-> bucket, ret |-> "AddressOutOfRange"]
    ELSE LET local_address == address - bucket.global_offset
             bucket_index  == local_address \div bucket.slot_size
         IN  IF local_address % bucket.slot_size # 0
             THEN [bucket |-> bucket, ret |-> "Misaligned"]
             ELSE IF \A i \in 1..Len(bucket.used) : bucket.used[i] # bucket_index
             THEN [bucket |-> bucket, ret |-> "NotAllocated"]
             ELSE [bucket |-> [bucket EXCEPT
                                 !.used = swap_remove(@, position(@, bucket_index)),
                                 !.free = Append(@, bucket_index)],
                   ret    |-> "Ok"]

\* ---------------------------------------------------- ShadingTableAllocator
\* Variant: slot_count is rounded up, so the last slot may straddle the end
\* of the bucket's address range.
ShadingTableAllocator_new_rounds_up(bucket_count, elements_per_bucket) ==
    [buckets |-> [k \in 1..bucket_count |->
                    LET i         == bucket_count - k
                        slot_size == Pow2(9 - i)
                    IN  ShadingBucket_new(i * elements_per_bucket,
                                          (elements_per_bucket + slot_size - 1) \div slot_size,
                                          slot_size)],
     bucket_count        |-> bucket_count,
     elements_per_bucket |-> elements_per_bucket,
     total_elements      |-> bucket_count * elements_per_bucket,
     used_elements       |-> 0]

\* Buckets are pushed for i = bucket_count-1 down to 0, so buckets[1] has the
\* smallest slots (2^(9-(bucket_count-1))) and buckets[bucket_count] has 512.
ShadingTableAllocator_new(bucket_count, elements_per_bucket) ==
    [buckets |-> [k \in 1..bucket_count |->
                    LET i         == bucket_count - k
                        slot_size == Pow2(9 - i)
                    IN  ShadingBucket_new(i * elements_per_bucket,
                                          elements_per_bucket \div slot_size,
                                          slot_size)],
     bucket_count        |-> bucket_count,
     elements_per_bucket |-> elements_per_bucket,
     total_elements      |-> bucket_count * elements_per_bucket,
     used_elements       |-> 0]

\* Variant: a bucket is taken as soon as it has a free slot, whatever its
\* slot size.
RECURSIVE try_alloc_from_first_free(_, _, _)
try_alloc_from_first_free(a, size, i) ==
    IF i > a.bucket_count
    THEN [alloc |-> a, ret |-> None]
    ELSE LET r == ShadingBucket_try_alloc(a.buckets[i])
         IN  IF IsSome(r.ret)
             THEN [alloc |-> [a EXCEPT
                                !.buckets[i] = r.bucket,
                                !.used_elements = @ + a.buckets[i].slot_size],
                   ret   |-> r.ret]
             ELSE try_alloc_from_first_free(a, size, i + 1)

RECURSIVE try_alloc_from(_, _, _)
try_alloc_from(a, size, i) ==
    IF i > a.bucket_count
    THEN [alloc |-> a, ret |-> None]
    ELSE IF a.buckets[i].slot_size < size
    THEN try_alloc_from(a, size, i + 1)
    ELSE LET r == ShadingBucket_try_alloc(a.buckets[i])
         IN  IF IsSome(r.ret)
             THEN [alloc |-> [a EXCEPT
                                !.buckets[i] = r.bucket,
                                !.used_elements = @ + a.buckets[i].slot_size],
                   ret   |-> r.ret]
             ELSE try_alloc_from(a, size, i + 1)

\* Variant: the requested size is not compared with the slot size, so the
\* bucket with the smallest slots always serves.
ShadingTableAllocator_try_alloc_any_bucket(a, size) == try_alloc_from(a, 0, 1)

ShadingTableAllocator_try_alloc(a, size) == try_alloc_from(a, size, 1)

\* bucket_idx = bucket_count - address / elements_per_bucket - 1 is computed
\* in u32 and indexes the bucket vector: an address at or beyond the table
\* end has no bucket and the call panics.  used_elements is decremented
\* before the bucket validates the address.
ShadingTableAllocator_try_dealloc(a, address) ==
    LET bucket_idx == address \div a.elements_per_bucket
    IN  IF bucket_idx + 1 > a.bucket_count
        THEN [alloc |-> a, ret |-> "Panic"]
        ELSE LET k == a.bucket_count - bucket_idx
                 r == ShadingBucket_try_dealloc(a.buckets[k], address)
             IN  [alloc |-> [a EXCEPT
                               !.buckets[k] = r.bucket,
                               !.used_elements = @ - a.buckets[k].slot_size],
                  ret   |-> r.ret]

\* Addresses of the slots marked used, over all buckets.
UsedAddresses(a) ==
    UNION { { a.buckets[k].global_offset + a.buckets[k].used[j] * a.buckets[k].slot_size
              : j \in 1..Len(a.buckets[k].used) } : k \in 1..a.bucket_count }

\* slot_size of the bucket that owns address.
SlotSizeOf(a, address) ==
    a.buckets[a.bucket_count - (address \div a.elements_per_bucket)].slot_size

\* ----------------------------------------------------------------- indices
\* math::to_1d_index
to_1d_index(p, dim) ==
    p[1] + p[2] * dim[1] + p[3] * dim[1] * dim[2]

\* `<< 8` on a u32: the low 24 bits move up by 8, the high 8 bits are shifted
\* out (a shift by less than the width never traps).
Shl8(x) ==
    LET low == x % 16777216
    IN  IF low < 8388608 THEN low * 256 ELSE (low - 16777216) * 256
\* `>> 8` on a u32: the logical shift.
Shr8(word) ==
    IF word >= 0 THEN word \div 256 ELSE (word \div 256) + 16777216

\* The ends of the i32 range.
MaxI32 == 2147483647
MinI32 == -2147483647 - 1

\* (a / b).floor() on f64 values that hold an i32 and a u32 > 0: the quotient
\* of two such integers is never rounded across an integer, so the result is
\* the exact floor.
f64_div_floor(a, b) == a \div b

\* (a * b) as i32 for the f64 product of a floored quotient a and its
\* divisor b: the product is exact, and the cast saturates at i32::MIN when
\* it lies below the i32 range (it is never above the dividend).
f64_mul_as_i32(a, b) ==
    LET least == (MinI32 \div b) + (IF MinI32 % b = 0 THEN 0 ELSE 1)
    IN  IF a < least THEN MinI32 ELSE a * b

\* chunk_pos = (grid_pos / chunk_dims).floor() in f64;
\* block_pos = grid_pos - (chunk_pos * chunk_dims).as_ivec3()
grid_pos_to_world_pos(chunk_dims, grid_pos) ==
    LET chunk_pos == [i \in 1..3 |-> f64_div_floor(grid_pos[i], chunk_dims[i])]
        block_pos == [i \in 1..3 |->
                        grid_pos[i] - f64_mul_as_i32(chunk_pos[i], chunk_dims[i])]
    IN  [chunk_pos |-> chunk_pos, block_pos |-> block_pos]

\* ----------------------------------------------------------------- culling
\* A Voxel is Voxel::Empty or Voxel::Color(r, g, b), held as <<r, g, b>>; a
\* block is the Vec<Voxel> of a brick's 512 voxels, voxel (x, y, z) at index
\* x + 8y + 64z.
VoxelEmpty == << >>

\* WorldManager::get_block: the block of the chunk at chunk_pos that lies at
\* local_pos.  blocks is what the generator yields for each such pair.
get_block(blocks, chunk_pos, local_pos) == blocks[<<chunk_pos, local_pos>>]

\* Variant: the voxel of the brick in front is read at the index of the
\* voxel itself, not at the index across the face.
surface_voxel_same_index(center_block, forward_block, backward_block, left_block, right_block, up_block, down_block, x, y, z) ==
    LET idx == x + y * 8 + z * 8 * 8
    IN  \/ IF x = 7 THEN forward_block[idx] = VoxelEmpty
                    ELSE center_block[idx + 1] = VoxelEmpty
        \/ IF x = 0 THEN backward_block[idx + 7] = VoxelEmpty
                    ELSE center_block[idx - 1] = VoxelEmpty
        \/ IF z = 7 THEN right_block[idx - 448] = VoxelEmpty
                    ELSE center_block[idx + 64] = VoxelEmpty
        \/ IF z = 0 THEN left_block[idx + 448] = VoxelEmpty
                    ELSE center_block[idx - 64] = VoxelEmpty
        \/ IF y = 7 THEN up_block[idx - 56] = VoxelEmpty
                    ELSE center_block[idx + 8] = VoxelEmpty
        \/ IF y = 0 THEN down_block[idx + 56] = VoxelEmpty
                    ELSE center_block[idx - 8] = VoxelEmpty

\* neighbours.iter().any(|v| *v): one of the six cardinal neighbours of the
\* voxel at (x, y, z) is Voxel::Empty.
surface_voxel(center_block, forward_block, backward_block, left_block, right_block, up_block, down_block, x, y, z) ==
    LET idx == x + y * 8 + z * 8 * 8
    IN  \/ IF x = 7 THEN forward_block[idx - 7] = VoxelEmpty
                    ELSE center_block[idx + 1] = VoxelEmpty
        \/ IF x = 0 THEN backward_block[idx + 7] = VoxelEmpty
                    ELSE center_block[idx - 1] = VoxelEmpty
        \/ IF z = 7 THEN right_block[idx - 448] = VoxelEmpty
                    ELSE center_block[idx + 64] = VoxelEmpty
        \/ IF z = 0 THEN left_block[idx + 448] = VoxelEmpty
                    ELSE center_block[idx - 64] = VoxelEmpty
        \/ IF y = 7 THEN up_block[idx - 56] = VoxelEmpty
                    ELSE center_block[idx + 8] = VoxelEmpty
        \/ IF y = 0 THEN down_block[idx + 56] = VoxelEmpty
                    ELSE center_block[idx - 8] = VoxelEmpty

\* ((r as u32) << 24) + ((g as u32) << 16) + ((b as u32) << 8) + 255u32, as
\* the four bytes of the word, the most significant first.
albedo_of(voxel) == <<voxel[1], voxel[2], voxel[3], 255>>

\* util::cull_interior_voxels.  The u64 entry of a z level and the u32 words
\* of bitmask_data are held as the sets of their one bits; the loops visit
\* the voxels in ascending index order, which is the order of albedo_data.
util_cull_interior_voxels(blocks, chunk_dims, grid_pos) ==
    LET block_at(offset) ==
            LET pos == grid_pos_to_world_pos(chunk_dims,
                           [i \in 1..3 |-> grid_pos[i] + offset[i]])
            IN  get_block(blocks, pos.chunk_pos, pos.block_pos)
        center_block   == block_at(<<0, 0, 0>>)
        forward_block  == block_at(<<1, 0, 0>>)
        backward_block == block_at(<<-1, 0, 0>>)
        left_block     == block_at(<<0, 0, -1>>)
        right_block    == block_at(<<0, 0, 1>>)
        up_block       == block_at(<<0, 1, 0>>)
        down_block     == block_at(<<0, -1, 0>>)
        kept == { idx \in 0..511 :
                    /\ center_block[idx] # VoxelEmpty
                    /\ surface_voxel(center_block, forward_block, backward_block,
                                     left_block, right_block, up_block, down_block,
                                     idx % 8, (idx \div 8) % 8, idx \div 64) }
        entry(z) == { idx - 64 * z : idx \in { k \in kept : k \div 64 = z } }
        order == SelectSeq([n \in 1..512 |-> n - 1], LAMBDA idx : idx \in kept)
    IN  [bitmask_data |-> [offset \in 0..15 |->
                             IF offset % 2 = 0
                             THEN { b \in entry(offset \div 2) : b < 32 }
                             ELSE { b - 32 : b \in { c \in entry(offset \div 2) : c >= 32 } }],
         albedo_data  |-> [n \in 1..Len(order) |-> albedo_of(center_block[order[n]])]]

\* (brickmap_cache_idx << 8) + flags as u32
to_brickgrid_element(brickmap_cache_idx, flags) ==
    Shl8(brickmap_cache_idx) + flags

\* The manager reads a word's flag as (word & 0xF) and its pointer as (word >> 8).
FlagOf(word) == word % 16
PointerOf(word) == word \div 256

NumCells == brickgrid_dims[1] * brickgrid_dims[2] * brickgrid_dims[3]
Cells == 0..(NumCells - 1)
Slots == 0..(CacheSize - 1)
\* Grid positions inside brickgrid_dims.
Positions ==
    { <<x, y, z>> : x \in 0..(brickgrid_dims[1] - 1),
                    y \in 0..(brickgrid_dims[2] - 1),
                    z \in 0..(brickgrid_dims[3] - 1) }

VARIABLES
    \* BrickmapManager (brickworld/brickmap.rs)
    brickgrid,                \* Vec<u32>, one word per cell
    brickmap_cache_map,       \* Vec<Option<BrickmapCacheEntry>>
    brickmap_cache_idx,       \* ring index: the slot the next brick is written to
    shading_table_allocator,  \* ShadingTableAllocator
    brickgrid_staged,         \* HashSet<usize>: cells waiting for upload
    brickmap_staged,          \* Vec<BrickmapUnpackElement>: payloads waiting for upload
    unpack_max_count,         \* max_uploaded_brickmaps: records one drain may move
    brickgrid_unpack,         \* what the last drain wrote to the brickgrid unpack buffer
    brickmap_unpack,          \* what the last drain wrote to the brickmap unpack buffer
    panicked,                 \* the process aborted (unwrap on None, index out of range)
    world,                    \* WorldManager: surface-voxel count of each generated cell
    steps,                    \* the primitive steps of the last process_feedback_buffer call
    request_order,            \* the cells a load was requested for, oldest last request first
    \* The frame loop (core/app.rs) and the two feedback buffers on the device
    feedback_buffer,          \* the buffer the producer writes: count and records
    feedback_result_buffer,   \* the read-back copy the host maps
    feedback_reset_queued,    \* a write of count = 0 waits in the queue for the next submit
    frame_pc,                 \* the call the loop makes next: "render" or "update"
    render_result,            \* what the last render call returned: "Ok" or "Err"
    rendered,                 \* the render calls made so far
    host_reads,               \* the batches process_feedback_buffer handled so far
    \* BrickmapCache (brickworld/brickmap_cache.rs)
    cache,                    \* Vec<Option<BrickmapCacheEntry>>
    index,                    \* ring index: the slot written last
    num_loaded,
    staged,                   \* Vec<BrickmapUploadElement>
    upload_buffer,            \* what the last upload wrote
    calls,                    \* the add_entry / remove_entry calls made so far, with results
    \* ShadingTableAllocator on its own (brickworld/shading_table.rs)
    allocator,                \* ShadingTableAllocator
    alloc_calls,              \* the try_alloc / try_dealloc calls made so far, with results
    alloc_panicked,           \* a call aborted the process
    overflow_checks,          \* the build traps integer overflow (debug profile)
    \* Brickgrid on its own (brickworld/brickgrid.rs)
    grid_data,                \* data: Vec<BrickgridElement>, by the u32 of each element
    grid_staged,              \* staged: HashSet<usize>
    grid_upload_buffer,       \* what the last upload wrote
    grid_calls,               \* the set / get calls made so far, with results
    cache_panicked,           \* an add_entry call of the stand-alone cache aborted
    \* The free functions of brickworld/util.rs and the BrickgridElement codec
    fn_call                   \* the last call made, with its arguments and result

loopVars ==
    <<feedback_buffer, feedback_result_buffer, feedback_reset_queued, frame_pc,
      render_result, rendered, host_reads>>
managerVars ==
    <<brickgrid, brickmap_cache_map, brickmap_cache_idx, shading_table_allocator,
      brickgrid_staged, brickmap_staged, unpack_max_count, brickgrid_unpack,
      brickmap_unpack, panicked, world, steps, request_order, loopVars>>
cacheVars == <<cache, index, num_loaded, staged, upload_buffer, calls, cache_panicked>>
allocVars == <<allocator, alloc_calls, alloc_panicked, overflow_checks>>
gridVars == <<grid_data, grid_staged, grid_upload_buffer, grid_calls>>
pureVars == <<fn_call>>
componentVars == <<allocVars, gridVars, pureVars>>
vars == <<managerVars, cacheVars, componentVars>>

\* ------------------------------------------------------------- the manager
\* The manager's mutable fields as one record, so that the calls of
\* process_feedback_buffer compose; log collects each primitive step with the
\* state it leaves behind.
Snapshot(m) ==
    [brickgrid               |-> m.brickgrid,
     brickmap_cache_map      |-> m.brickmap_cache_map,
     brickmap_cache_idx      |-> m.brickmap_cache_idx,
     shading_table_allocator |-> m.shading_table_allocator]

Step(m, op, idx, val) ==
    [m EXCEPT !.log = Append(@, [op |-> op, idx |-> idx, val |-> val, post |-> Snapshot(m)])]

Panic(m, idx) == Step([m EXCEPT !.panicked = TRUE], "panic", idx, 0)

\* self.brickgrid[index] = data; self.brickgrid_staged.insert(index)
WriteGrid(m, idx, data) ==
    IF m.panicked THEN m
    ELSE Step([m EXCEPT !.brickgrid[idx] = data,
                        !.brickgrid_staged = @ \cup {idx}],
              "grid_write", idx, data)

\* Variant: the cache entry is marked None but its shading slot is never
\* handed back to the allocator.
release_entry_no_dealloc(m, brickmap_idx) ==
    IF brickmap_idx \notin DOMAIN m.brickmap_cache_map
    THEN Panic(m, brickmap_idx)
    ELSE LET cache_map_entry == m.brickmap_cache_map[brickmap_idx]
         IN  IF IsSome(cache_map_entry)
             THEN Step([m EXCEPT !.brickmap_cache_map[brickmap_idx] = None],
                       "cache_none", brickmap_idx, Unwrap(cache_map_entry).grid_idx)
             ELSE Step(m, "warn_none", brickmap_idx, 0)

\* Variant: the shading slot is deallocated but the cache entry stays Some.
release_entry_keep_entry(m, brickmap_idx) ==
    IF brickmap_idx \notin DOMAIN m.brickmap_cache_map
    THEN Panic(m, brickmap_idx)
    ELSE LET cache_map_entry == m.brickmap_cache_map[brickmap_idx]
         IN  IF IsSome(cache_map_entry)
             THEN LET entry == Unwrap(cache_map_entry)
                      d     == ShadingTableAllocator_try_dealloc(
                                   m.shading_table_allocator, entry.shading_table_offset)
                  IN  IF d.ret = "Panic"
                      THEN Panic(m, brickmap_idx)
                      ELSE Step([m EXCEPT !.shading_table_allocator = d.alloc],
                                "dealloc", entry.shading_table_offset,
                                IF d.ret = "Ok" THEN 1 ELSE 0)
             ELSE Step(m, "warn_none", brickmap_idx, 0)

\* Variant: the address handed to try_dealloc is the one after the entry's
\* offset.
release_entry_wrong_offset(m, brickmap_idx) ==
    IF brickmap_idx \notin DOMAIN m.brickmap_cache_map
    THEN Panic(m, brickmap_idx)
    ELSE LET cache_map_entry == m.brickmap_cache_map[brickmap_idx]
         IN  IF IsSome(cache_map_entry)
             THEN LET entry == Unwrap(cache_map_entry)
                      d     == ShadingTableAllocator_try_dealloc(
                                   m.shading_table_allocator, entry.shading_table_offset + 1)
                  IN  IF d.ret = "Panic"
                      THEN Panic(m, brickmap_idx)
                      ELSE Step([Step([m EXCEPT !.shading_table_allocator = d.alloc],
                                      "dealloc", entry.shading_table_offset + 1,
                                      IF d.ret = "Ok" THEN 1 ELSE 0)
                                   EXCEPT !.brickmap_cache_map[brickmap_idx] = None],
                                "cache_none", brickmap_idx, entry.grid_idx)
             ELSE Step(m, "warn_none", brickmap_idx, 0)

\* The match on cache_map_entry: the shading table gets deallocated and the
\* cache entry is marked None; a None entry is only logged.
release_entry(m, brickmap_idx) ==
    IF brickmap_idx \notin DOMAIN m.brickmap_cache_map
    THEN Panic(m, brickmap_idx)
    ELSE LET cache_map_entry == m.brickmap_cache_map[brickmap_idx]
         IN  IF IsSome(cache_map_entry)
             THEN LET entry == Unwrap(cache_map_entry)
                      d     == ShadingTableAllocator_try_dealloc(
                                   m.shading_table_allocator, entry.shading_table_offset)
                  IN  IF d.ret = "Panic"
                      THEN Panic(m, brickmap_idx)
                      ELSE Step([Step([m EXCEPT !.shading_table_allocator = d.alloc],
                                      "dealloc", entry.shading_table_offset,
                                      IF d.ret = "Ok" THEN 1 ELSE 0)
                                   EXCEPT !.brickmap_cache_map[brickmap_idx] = None],
                                "cache_none", brickmap_idx, entry.grid_idx)
             ELSE Step(m, "warn_none", brickmap_idx, 0)

\* Variant: the grid word is overwritten first and the old brick released
\* afterwards.
update_brickgrid_element_write_first(m, idx, data) ==
    IF m.panicked THEN m
    ELSE IF idx \notin DOMAIN m.brickgrid
    THEN Panic(m, idx)
    ELSE IF FlagOf(m.brickgrid[idx]) = 4
    THEN release_entry(WriteGrid(m, idx, data), PointerOf(m.brickgrid[idx]))
    ELSE WriteGrid(m, idx, data)

\* Variant: the grid word is overwritten and what the cell held is not
\* released.
update_brickgrid_element_keeps_entry(m, idx, data) ==
    IF m.panicked THEN m
    ELSE IF idx \notin DOMAIN m.brickgrid
    THEN Panic(m, idx)
    ELSE WriteGrid(m, idx, data)

update_brickgrid_element(m, idx, data) ==
    IF m.panicked THEN m
    ELSE IF idx \notin DOMAIN m.brickgrid
    THEN Panic(m, idx)
    ELSE IF FlagOf(m.brickgrid[idx]) = 4
    THEN WriteGrid(release_entry(m, PointerOf(m.brickgrid[idx])), idx, data)
    ELSE WriteGrid(m, idx, data)

\* Variant: the occupant of the ring slot is overwritten without being unloaded.
unload_cache_spot_skipped(m) == m

\* Variant: the evicted cell is marked Empty instead of Unloaded.
unload_cache_spot_as_empty(m) ==
    IF m.panicked THEN m
    ELSE IF IsSome(m.brickmap_cache_map[m.brickmap_cache_idx])
    THEN update_brickgrid_element(m,
             Unwrap(m.brickmap_cache_map[m.brickmap_cache_idx]).grid_idx, 0)
    ELSE m

\* Variant: the occupant of the ring slot is unloaded without its shading
\* slot being handed back.
unload_cache_spot_keeps_shading(m) ==
    IF m.panicked THEN m
    ELSE IF IsSome(m.brickmap_cache_map[m.brickmap_cache_idx])
    THEN LET entry == Unwrap(m.brickmap_cache_map[m.brickmap_cache_idx])
         IN  WriteGrid(Step([m EXCEPT !.brickmap_cache_map[m.brickmap_cache_idx] = None],
                            "cache_none", m.brickmap_cache_idx, entry.grid_idx),
                       entry.grid_idx, 1)
    ELSE m

\* "If there's already something in the cache spot we want to write to, we
\* need to unload it."
unload_cache_spot(m) ==
    IF m.panicked THEN m
    ELSE IF IsSome(m.brickmap_cache_map[m.brickmap_cache_idx])
    THEN update_brickgrid_element(m,
             Unwrap(m.brickmap_cache_map[m.brickmap_cache_idx]).grid_idx, 1)
    ELSE m

\* Variant: the ring index stays where it is when the next slot is occupied.
write_cache_entry_stays_when_full(m, grid_idx, albedo_len) ==
    IF m.panicked THEN m
    ELSE LET a == ShadingTableAllocator_try_alloc(m.shading_table_allocator, albedo_len)
             slot == m.brickmap_cache_idx
             next == IF IsSome(m.brickmap_cache_map[(slot + 1) % CacheSize])
                     THEN slot
                     ELSE (slot + 1) % CacheSize
         IN
         IF ~IsSome(a.ret)
         THEN Panic(m, grid_idx)
         ELSE
           LET shading_idx == Unwrap(a.ret)
               m3 == Step([m EXCEPT !.shading_table_allocator = a.alloc],
                          "alloc", shading_idx, albedo_len)
               m4 == Step([m3 EXCEPT !.brickmap_cache_map[slot] =
                              Some([grid_idx |-> grid_idx,
                                    shading_table_offset |-> shading_idx])],
                          "cache_some", slot, grid_idx)
               m5 == Step([m4 EXCEPT !.brickmap_staged =
                              Append(@, [cache_idx |-> slot,
                                         shading_table_offset |-> shading_idx,
                                         shading_element_count |-> albedo_len])],
                          "stage", slot, albedo_len)
           IN  Step([m5 EXCEPT !.brickmap_cache_idx = next], "advance", next, 0)

\* try_alloc(..).unwrap(), the cache map entry, the staged payload and the
\* advance of the ring index.
write_cache_entry(m, grid_idx, albedo_len) ==
    IF m.panicked THEN m
    ELSE LET a == ShadingTableAllocator_try_alloc(m.shading_table_allocator, albedo_len)
             slot == m.brickmap_cache_idx
         IN
         IF ~IsSome(a.ret)
         THEN Panic(m, grid_idx)
         ELSE
           LET shading_idx == Unwrap(a.ret)
               m3 == Step([m EXCEPT !.shading_table_allocator = a.alloc],
                          "alloc", shading_idx, albedo_len)
               m4 == Step([m3 EXCEPT !.brickmap_cache_map[slot] =
                              Some([grid_idx |-> grid_idx,
                                    shading_table_offset |-> shading_idx])],
                          "cache_some", slot, grid_idx)
               m5 == Step([m4 EXCEPT !.brickmap_staged =
                              Append(@, [cache_idx |-> slot,
                                         shading_table_offset |-> shading_idx,
                                         shading_element_count |-> albedo_len])],
                          "stage", slot, albedo_len)
           IN  Step([m5 EXCEPT !.brickmap_cache_idx = (slot + 1) % CacheSize],
                    "advance", (slot + 1) % CacheSize, 0)

\* Variant: a request for a non-empty brick whose cell is already Loaded is
\* dropped.
handle_request_skips_loaded(m, grid_pos, albedo_len) ==
    LET grid_idx == to_1d_index(grid_pos, brickgrid_dims)
        m0 == Step(m, "request", grid_idx, albedo_len)
    IN
    IF m.panicked THEN m
    ELSE IF albedo_len = 0
    THEN update_brickgrid_element(m0, grid_idx, 0)
    ELSE IF grid_idx \in DOMAIN m.brickgrid /\ FlagOf(m.brickgrid[grid_idx]) = 4
    THEN m0
    ELSE write_cache_entry(
             unload_cache_spot(
                 update_brickgrid_element(m0, grid_idx,
                     to_brickgrid_element(m0.brickmap_cache_idx, FlagLoaded))),
             grid_idx, albedo_len)

\* Variant: a request for an empty brick also moves the ring index on.
handle_request_advances_when_empty(m, grid_pos, albedo_len) ==
    LET grid_idx == to_1d_index(grid_pos, brickgrid_dims)
        m0 == Step(m, "request", grid_idx, albedo_len)
    IN
    IF m.panicked THEN m
    ELSE IF albedo_len = 0
    THEN LET m1 == update_brickgrid_element(m0, grid_idx, 0)
         IN  IF m1.panicked THEN m1
             ELSE Step([m1 EXCEPT !.brickmap_cache_idx = (@ + 1) % CacheSize],
                       "advance", m1.brickmap_cache_idx, 0)
    ELSE write_cache_entry(
             unload_cache_spot(
                 update_brickgrid_element(m0, grid_idx,
                     to_brickgrid_element(m0.brickmap_cache_idx, FlagLoaded))),
             grid_idx, albedo_len)

\* One iteration of the request loop: grid_pos is the requested position and
\* albedo_len the length of the colour list cull_interior_voxels returns for it.
handle_request(m, grid_pos, albedo_len) ==
    LET grid_idx == to_1d_index(grid_pos, brickgrid_dims)
        m0 == Step(m, "request", grid_idx, albedo_len)
    IN
    IF m.panicked THEN m
    ELSE IF albedo_len = 0
    THEN update_brickgrid_element(m0, grid_idx, 0)
    ELSE write_cache_entry(
             unload_cache_spot(
                 update_brickgrid_element(m0, grid_idx,
                     to_brickgrid_element(m0.brickmap_cache_idx, FlagLoaded))),
             grid_idx, albedo_len)

\* The colour list of the brick at grid_pos, by its length.
cull_interior_voxels(w, grid_pos) == w[grid_pos]

\* for i in 0..request_count { ... }
RECURSIVE handle_requests(_, _, _, _)
handle_requests(m, reqs, w, i) ==
    IF i > Len(reqs) THEN m
    ELSE handle_requests(handle_request(m, reqs[i], cull_interior_voxels(w, reqs[i])),
                         reqs, w, i + 1)

Min(a, b) == IF a < b THEN a ELSE b

\* The sets of n elements of S: what iterating a HashSet can yield as its
\* first n elements, the order left aside.
Takes(S, n) == { T \in SUBSET S : Cardinality(T) = n }

\* The u32 words the drain pushes for the taken indices, two per index (the
\* index and the cell's word), by how many times each pair occurs: the order
\* of the pairs is the HashSet's iteration order and is not kept.
GridUploadData(grid, taken) ==
    [len |-> 2 * Cardinality(taken),
     records |-> { <<i, grid[i]>> : i \in taken }]

\* Variant: a frame without requests returns before the drain.
upload_unpack_buffers_skipped_when_idle(m, taken) ==
    IF m.log = << >>
    THEN m
    ELSE LET data == GridUploadData(m.brickgrid, taken)
             end  == Min(m.unpack_max_count, Len(m.brickmap_staged))
         IN  [m EXCEPT
                !.brickgrid_staged = @ \ taken,
                !.brickgrid_unpack = [count |-> data.len, records |-> data.records],
                !.brickmap_unpack  = [count |-> end, data |-> SubSeq(m.brickmap_staged, 1, end)],
                !.brickmap_staged  = SubSeq(@, end + 1, Len(@))]

\* Variant: the payloads handed over stay on the staged queue.
upload_unpack_buffers_keeps_payloads(m, taken) ==
    LET data == GridUploadData(m.brickgrid, taken)
        end  == Min(m.unpack_max_count, Len(m.brickmap_staged))
    IN  [m EXCEPT
           !.brickgrid_staged = @ \ taken,
           !.brickgrid_unpack = [count |-> data.len, records |-> data.records],
           !.brickmap_unpack  = [count |-> end, data |-> SubSeq(m.brickmap_staged, 1, end)]]

\* Variant: the limit is applied to the u32 words pushed, two per cell, so
\* that only half as many cells leave the dirty set.
upload_unpack_buffers_limits_words(m, taken) ==
    LET half == CHOOSE T \in SUBSET taken : Cardinality(T) = (Cardinality(taken) + 1) \div 2
        data == GridUploadData(m.brickgrid, half)
        end  == Min(m.unpack_max_count, Len(m.brickmap_staged))
    IN  [m EXCEPT
           !.brickgrid_staged = @ \ half,
           !.brickgrid_unpack = [count |-> data.len, records |-> data.records],
           !.brickmap_unpack  = [count |-> end, data |-> SubSeq(m.brickmap_staged, 1, end)],
           !.brickmap_staged  = SubSeq(@, end + 1, Len(@))]

\* taken: the first min(unpack_max_count, len) indices the HashSet iterator yields.
upload_unpack_buffers(m, taken) ==
    LET data == GridUploadData(m.brickgrid, taken)
        end  == Min(m.unpack_max_count, Len(m.brickmap_staged))
    IN  [m EXCEPT
           !.brickgrid_staged = @ \ taken,
           !.brickgrid_unpack = [count |-> data.len, records |-> data.records],
           !.brickmap_unpack  = [count |-> end, data |-> SubSeq(m.brickmap_staged, 1, end)],
           !.brickmap_staged  = SubSeq(@, end + 1, Len(@))]

\* ------------------------------------------------------------ WorldManager
\* world[p] is the length of the colour list that culling the brick at grid
\* position p yields.  WorldManager generates chunk data from a seeded noise
\* function and keeps it, so the value of a position never changes.
RequestLists(P) == UNION { [1..n -> P] : n \in 0..MaxRequests }

Manager ==
    [brickgrid               |-> brickgrid,
     brickmap_cache_map      |-> brickmap_cache_map,
     brickmap_cache_idx      |-> brickmap_cache_idx,
     shading_table_allocator |-> shading_table_allocator,
     brickgrid_staged        |-> brickgrid_staged,
     brickmap_staged         |-> brickmap_staged,
     unpack_max_count        |-> unpack_max_count,
     brickgrid_unpack        |-> brickgrid_unpack,
     brickmap_unpack         |-> brickmap_unpack,
     panicked                |-> FALSE,
     log                     |-> << >>]

Commit(m) ==
    /\ brickgrid' = m.brickgrid
    /\ brickmap_cache_map' = m.brickmap_cache_map
    /\ brickmap_cache_idx' = m.brickmap_cache_idx
    /\ shading_table_allocator' = m.shading_table_allocator
    /\ brickgrid_staged' = m.brickgrid_staged
    /\ brickmap_staged' = m.brickmap_staged
    /\ unpack_max_count' = m.unpack_max_count
    /\ brickgrid_unpack' = m.brickgrid_unpack
    /\ brickmap_unpack' = m.brickmap_unpack
    /\ panicked' = m.panicked
    /\ steps' = m.log

\* One call of process_feedback_buffer with the request records reqs: the
\* request loop, then the drain of both upload queues.
FrameBody(lists) ==
    /\ ~panicked
    /\ \E reqs \in lists :
       \E m1 \in { handle_requests(Manager, reqs, world, 1) } :
         IF m1.panicked
         THEN Commit(m1)
         ELSE \E taken \in Takes(m1.brickgrid_staged,
                        Min(unpack_max_count, Cardinality(m1.brickgrid_staged))) :
              \E m2 \in { upload_unpack_buffers(m1, taken) } :
                Commit(m2)
    /\ UNCHANGED <<world, cacheVars, componentVars>>

FrameOf(lists) == FrameBody(lists) /\ UNCHANGED <<request_order, loopVars>>

\* The order of the cells by their last load request (a request whose colour
\* list is not empty), after the first n steps of log.
RECURSIVE LoadOrder(_, _, _, _)
LoadOrder(order, log, j, n) ==
    IF j > n THEN order
    ELSE LoadOrder(IF log[j].op = "request" /\ log[j].val > 0
                   THEN Append(SelectSeq(order, LAMBDA c : c # log[j].idx), log[j].idx)
                   ELSE order,
                   log, j + 1, n)

\* The same call, with the order of the load requests kept.
TrackedFrame(lists) ==
    /\ FrameBody(lists)
    /\ request_order' = LoadOrder(request_order, steps', 1, Len(steps'))
    /\ UNCHANGED loopVars

Frame(P) == FrameOf(RequestLists(P))

process_feedback_buffer == Frame(Positions)

\* ------------------------------------------------------------ BrickmapCache
\* The cache's mutable fields as one record c; every operation returns the
\* new record and the value the method returns.
BrickmapCache_new ==
    [cache      |-> [i \in Slots |-> None],
     index      |-> 0,
     num_loaded |-> 0,
     staged     |-> << >>]

\* Variant: the ring index is never advanced.
add_entry_no_advance(c, grid_idx, shading_table_offset, albedo_len) ==
    LET idx            == c.index
        existing_entry == c.cache[idx]
    IN  [c   |-> [c EXCEPT
                    !.index      = idx,
                    !.num_loaded = IF existing_entry = None THEN @ + 1 ELSE @,
                    !.cache[idx] = Some([grid_idx |-> grid_idx,
                                         shading_table_offset |-> shading_table_offset]),
                    !.staged     = Append(@, [cache_idx |-> idx,
                                              shading_table_offset |-> shading_table_offset,
                                              shading_element_count |-> albedo_len])],
         ret |-> existing_entry]

\* Variant: the entry read for the return value is the one at the index
\* before it is advanced.
add_entry_stale_return(c, grid_idx, shading_table_offset, albedo_len) ==
    LET idx            == (c.index + 1) % CacheSize
        existing_entry == c.cache[c.index]
    IN  [c   |-> [c EXCEPT
                    !.index      = idx,
                    !.num_loaded = IF c.cache[idx] = None THEN @ + 1 ELSE @,
                    !.cache[idx] = Some([grid_idx |-> grid_idx,
                                         shading_table_offset |-> shading_table_offset]),
                    !.staged     = Append(@, [cache_idx |-> idx,
                                              shading_table_offset |-> shading_table_offset,
                                              shading_element_count |-> albedo_len])],
         ret |-> existing_entry]

add_entry(c, grid_idx, shading_table_offset, albedo_len) ==
    LET idx            == (c.index + 1) % CacheSize
        existing_entry == c.cache[idx]
    IN  [c   |-> [c EXCEPT
                    !.index      = idx,
                    !.num_loaded = IF existing_entry = None THEN @ + 1 ELSE @,
                    !.cache[idx] = Some([grid_idx |-> grid_idx,
                                         shading_table_offset |-> shading_table_offset]),
                    !.staged     = Append(@, [cache_idx |-> idx,
                                              shading_table_offset |-> shading_table_offset,
                                              shading_element_count |-> albedo_len])],
         ret |-> existing_entry]

\* Variant: the slot is cleared but num_loaded keeps its value.
remove_entry_no_decrement(c, i) ==
    LET entry == c.cache[i]
    IN  [c   |-> IF IsSome(entry)
                 THEN [c EXCEPT !.cache[i] = None]
                 ELSE c,
         ret |-> entry]

remove_entry(c, i) ==
    LET entry == c.cache[i]
    IN  [c   |-> IF IsSome(entry)
                 THEN [c EXCEPT !.cache[i] = None,
                                !.num_loaded = @ - 1]
                 ELSE c,
         ret |-> entry]

get_entry(c, i) == c.cache[i]

\* Variant: the whole queue is drained, only the first count payloads are
\* handed over.
BrickmapCache_upload_drops_rest(c) ==
    LET count == Min(MaxUpload, Len(c.staged))
    IN  [c      |-> [c EXCEPT !.staged = << >>],
         buffer |-> [count |-> count, data |-> SubSeq(c.staged, 1, count)]]

\* Takes up to max_upload_count staged payloads from the front of the queue.
BrickmapCache_upload(c) ==
    LET count == Min(MaxUpload, Len(c.staged))
    IN  [c      |-> [c EXCEPT !.staged = SubSeq(@, count + 1, Len(@))],
         buffer |-> [count |-> count, data |-> SubSeq(c.staged, 1, count)]]

Cache == [cache |-> cache, index |-> index, num_loaded |-> num_loaded, staged |-> staged]

CommitCache(c) ==
    /\ cache' = c.cache
    /\ index' = c.index
    /\ num_loaded' = c.num_loaded
    /\ staged' = c.staged

\* Arguments the explored add_entry calls take: a grid index, and a brick given
\* by its shading-table offset and colour count.
CacheGridIdxs == {0, 1, 2}
CacheBricks == { <<0, 3>>, <<512, 512>>, <<1024, 513>> }

\* shading_elements[..shading_element_count].copy_from_slice(&albedo_data)
\* aborts for a colour list longer than the payload's 512 words, after the
\* index, num_loaded and the cache slot have been written and before the
\* payload is staged; the call never returns.
AddEntry ==
    /\ ~cache_panicked
    /\ Len(calls) < MaxCacheOps
    /\ \E g \in CacheGridIdxs, b \in CacheBricks :
         LET r == add_entry(Cache, g, b[1], b[2])
         IN  IF b[2] > 512
             THEN /\ CommitCache([r.c EXCEPT !.staged = staged])
                  /\ cache_panicked' = TRUE
                  /\ UNCHANGED calls
             ELSE /\ CommitCache(r.c)
                  /\ calls' = Append(calls, [op |-> "add_entry", slot |-> 0, grid_idx |-> g,
                                             shading_table_offset |-> b[1],
                                             len |-> b[2], ret |-> r.ret])
                  /\ UNCHANGED cache_panicked
    /\ UNCHANGED <<upload_buffer, managerVars, componentVars>>

RemoveEntry ==
    /\ ~cache_panicked
    /\ Len(calls) < MaxCacheOps
    /\ \E i \in Slots :
         LET r == remove_entry(Cache, i)
         IN  /\ CommitCache(r.c)
             /\ calls' = Append(calls, [op |-> "remove_entry", grid_idx |-> 0,
                                        shading_table_offset |-> 0,
                                        len |-> 0, slot |-> i, ret |-> r.ret])
    /\ UNCHANGED <<upload_buffer, cache_panicked, managerVars, componentVars>>

Upload ==
    /\ ~cache_panicked
    /\ staged # << >>
    /\ LET r == BrickmapCache_upload(Cache)
       IN  /\ CommitCache(r.c)
           /\ upload_buffer' = r.buffer
    /\ UNCHANGED <<calls, cache_panicked, managerVars, componentVars>>

\* ---------------------------------------------------------------- Brickgrid
\* Variant: the pointer is shifted by the 3 bits of the flag.
BrickgridElement_new_shifts_3(cache_idx, flag) == (cache_idx % 16777216) * 8 + flag

\* BrickgridElement::new: ((brickmap_cache_idx as u32) << 8) + flag as u32
BrickgridElement_new(cache_idx, flag) == Shl8(cache_idx) + flag

\* (self.0 >> 8) as usize
BrickgridElement_get_pointer(element) == Shr8(element)

\* impl From<u32> for BrickgridFlag: 1, 2 and 4 are Unloaded, Loading and
\* Loaded, every other value is Empty.
BrickgridFlag_from(value) ==
    IF value \in {FlagUnloaded, FlagLoading, FlagLoaded} THEN value ELSE FlagEmpty

\* BrickgridFlag::from(self.0 & 0xF)
BrickgridElement_get_flag(element) == BrickgridFlag_from(element % 16)

\* The grid's mutable fields as one record g.
Brickgrid_new ==
    [data   |-> [c \in Cells |-> BrickgridElement_new(0, FlagUnloaded)],
     staged |-> {}]

\* Variant: the value returned is the one just stored.
Brickgrid_set_returns_new(g, i, value) ==
    [g   |-> [g EXCEPT !.data[i] = value, !.staged = @ \cup {i}],
     ret |-> value]

Brickgrid_set(g, i, value) ==
    [g   |-> [g EXCEPT !.data[i] = value, !.staged = @ \cup {i}],
     ret |-> g.data[i]]

Brickgrid_get(g, i) == g.data[i]

\* Variant: the indices pushed stay in the set.
Brickgrid_upload_keeps_all(g, taken) ==
    [g      |-> g,
     buffer |-> GridUploadData(g.data, taken)]

\* staged.retain(..): the first max_upload_count indices the HashSet yields
\* (taken) are pushed with their elements and dropped from the set, the
\* others are kept.  The length written is that of the u32 vector.
Brickgrid_upload(g, taken) ==
    [g      |-> [g EXCEPT !.staged = @ \ taken],
     buffer |-> GridUploadData(g.data, taken)]

Grid == [data |-> grid_data, staged |-> grid_staged]

\* Indices and elements the explored set / get calls take.
GridIndices == {0, 1, 2}
GridElements == { BrickgridElement_new(0, FlagEmpty),
                  BrickgridElement_new(1, FlagLoaded),
                  BrickgridElement_new(2, FlagLoading) }

GridSet ==
    /\ Len(grid_calls) < MaxGridOps
    /\ \E i \in GridIndices, value \in GridElements :
         LET r == Brickgrid_set(Grid, i, value)
         IN  /\ grid_data' = r.g.data
             /\ grid_staged' = r.g.staged
             /\ grid_calls' = Append(grid_calls,
                    [op |-> "set", index |-> i, value |-> value, ret |-> r.ret])
    /\ UNCHANGED <<grid_upload_buffer, managerVars, cacheVars, allocVars, pureVars>>

GridGet ==
    /\ Len(grid_calls) < MaxGridOps
    /\ \E i \in GridIndices :
         grid_calls' = Append(grid_calls,
            [op |-> "get", index |-> i, value |-> 0, ret |-> Brickgrid_get(Grid, i)])
    /\ UNCHANGED <<grid_data, grid_staged, grid_upload_buffer,
                   managerVars, cacheVars, allocVars, pureVars>>

GridUpload ==
    /\ \E taken \in Takes(grid_staged, Min(MaxUpload, Cardinality(grid_staged))) :
         LET r == Brickgrid_upload(Grid, taken)
         IN  /\ grid_staged' = r.g.staged
             /\ grid_upload_buffer' = r.buffer
    /\ UNCHANGED <<grid_data, grid_calls, managerVars, cacheVars, allocVars, pureVars>>

\* ---------------------------------------- ShadingTableAllocator on its own
\* What a try_dealloc call can do.  used_elements -= slot_size runs before the
\* bucket validates the address: when fewer elements are accounted than the
\* slot holds, a build with overflow checks aborts there and a build without
\* them wraps the counter.
checked_try_dealloc(a, address) ==
    LET r == ShadingTableAllocator_try_dealloc(a, address)
    IN  IF r.ret # "Panic" /\ overflow_checks
           /\ a.used_elements < SlotSizeOf(a, address)
        THEN [alloc |-> a, ret |-> "Panic"]
        ELSE r

\* Sizes the explored try_alloc calls ask for.
AllocSizes == {1, 65, 512, 513}

\* Addresses the explored try_dealloc calls name: every allocated address and
\* the one after it, the first slot of the bucket with the smallest slots,
\* the end of the slots of the bucket with the largest, and the table's end.
DeallocAddresses(a) ==
    UsedAddresses(a)
       \cup { x + 1 : x \in UsedAddresses(a) }
       \cup { a.buckets[1].global_offset,
              a.buckets[a.bucket_count].slot_count * a.buckets[a.bucket_count].slot_size,
              a.total_elements }

\* (bucket_count, elements_per_bucket) of the allocators explored.
AllocConfigs == { <<4, 512>>, <<2, 768>> }

TryAlloc ==
    /\ ~alloc_panicked
    /\ Len(alloc_calls) < MaxAllocOps
    /\ \E size \in AllocSizes :
         LET r == ShadingTableAllocator_try_alloc(allocator, size)
         IN  /\ allocator' = r.alloc
             /\ alloc_calls' = Append(alloc_calls,
                    [op |-> "try_alloc", arg |-> size, ret |-> r.ret, post |-> r.alloc])
    /\ UNCHANGED <<alloc_panicked, overflow_checks, managerVars, cacheVars, gridVars, pureVars>>

TryDealloc ==
    /\ ~alloc_panicked
    /\ Len(alloc_calls) < MaxAllocOps
    /\ \E address \in DeallocAddresses(allocator) :
       \E r \in { checked_try_dealloc(allocator, address) } :
         /\ allocator' = r.alloc
         /\ alloc_panicked' = (r.ret = "Panic")
         /\ UNCHANGED overflow_checks
         /\ alloc_calls' = Append(alloc_calls,
                [op |-> "try_dealloc", arg |-> address, ret |-> r.ret, post |-> r.alloc])
    /\ UNCHANGED <<managerVars, cacheVars, gridVars, pureVars>>

\* try_alloc(1) again and again, until MaxNoneCalls calls have returned None.
TryAllocOne ==
    /\ Cardinality({ k \in 1..Len(alloc_calls) : alloc_calls[k].ret = None }) < MaxNoneCalls
    /\ LET r == ShadingTableAllocator_try_alloc(allocator, 1)
       IN  /\ allocator' = r.alloc
           /\ alloc_calls' = Append(alloc_calls,
                  [op |-> "try_alloc", arg |-> 1, ret |-> r.ret, post |-> r.alloc])
    /\ UNCHANGED <<alloc_panicked, overflow_checks, managerVars, cacheVars, gridVars, pureVars>>

\* ------------------------------------------------------------ specifications
\* Positions a feedback record can carry in the explored runs: the grid, and
\* the layer one step beyond it on the x axis.
FeedbackPositions ==
    { <<x, y, z>> : x \in 0..brickgrid_dims[1],
                    y \in 0..(brickgrid_dims[2] - 1),
                    z \in 0..(brickgrid_dims[3] - 1) }

\* The worlds explored, as colour counts per position (0: the brick is air or
\* buried, nothing to upload): every brick on the surface, with few or many
\* surface voxels; and the bricks of the layer y = 0 buried under bricks whose
\* voxels are all on the surface.
Worlds ==
    { [p \in FeedbackPositions |-> IF p[1] % 2 = 0 THEN 3 ELSE 200],
      [p \in FeedbackPositions |-> IF p[2] = 0 THEN 0 ELSE 512] }

InitManagerIn(max_uploaded_brickmaps, worlds) ==
    /\ brickgrid = [c \in Cells |-> 1]
    /\ brickmap_cache_map = [i \in Slots |-> None]
    /\ brickmap_cache_idx = 0
    /\ shading_table_allocator = ShadingTableAllocator_new(BucketCount, ElementsPerBucket)
    /\ brickgrid_staged = {}
    /\ brickmap_staged = << >>
    /\ unpack_max_count = max_uploaded_brickmaps
    /\ brickgrid_unpack = [count |-> 0, records |-> {}]
    /\ brickmap_unpack = [count |-> 0, data |-> << >>]
    /\ panicked = FALSE
    /\ world \in worlds
    /\ steps = << >>
    /\ request_order = << >>
    /\ feedback_buffer = [count |-> 0, records |-> << >>]
    /\ feedback_result_buffer = [count |-> 0, records |-> << >>]
    /\ feedback_reset_queued = FALSE
    /\ frame_pc = "render"
    /\ render_result = "Ok"
    /\ rendered = 0
    /\ host_reads = << >>

InitManagerWith(max_uploaded_brickmaps) == InitManagerIn(max_uploaded_brickmaps, Worlds)

\* The renderers hand over an upload limit of twice the request limit
\* (256 and 512, 4096 and 8192).
InitManager == InitManagerWith(2 * MaxRequests)

InitCache ==
    /\ cache = BrickmapCache_new.cache
    /\ index = BrickmapCache_new.index
    /\ num_loaded = BrickmapCache_new.num_loaded
    /\ staged = BrickmapCache_new.staged
    /\ upload_buffer = [count |-> 0, data |-> << >>]
    /\ calls = << >>
    /\ cache_panicked = FALSE

InitGrid ==
    /\ grid_data = Brickgrid_new.data
    /\ grid_staged = Brickgrid_new.staged
    /\ grid_upload_buffer = [len |-> 0, records |-> {}]
    /\ grid_calls = << >>

\* No free function has been called yet.
InitPure == fn_call = [op |-> "none"]

InitAllocator(bucket_count, elements_per_bucket, builds) ==
    /\ allocator = ShadingTableAllocator_new(bucket_count, elements_per_bucket)
    /\ alloc_calls = << >>
    /\ alloc_panicked = FALSE
    /\ overflow_checks \in builds

Init ==
    /\ InitManager
    /\ InitCache
    /\ InitGrid
    /\ InitPure
    /\ InitAllocator(BucketCount, ElementsPerBucket, {TRUE})

\* The frame loop of the manager.
Next == process_feedback_buffer
Spec == Init /\ [][Next]_vars

\* The stand-alone cache under arbitrary calls.
NextCache == AddEntry \/ RemoveEntry \/ Upload
SpecCache == Init /\ [][NextCache]_vars

\* The same handler fed records whose x coordinate may lie one brick outside
\* the grid: to_1d_index folds (dims.x, y, z) onto the cell (0, y + 1, z), or
\* past the end of the grid.
process_feedback_record == Frame(FeedbackPositions)
SpecFeedback == Init /\ [][process_feedback_record]_vars

\* The manager with an upload limit of one record per drain, fed frames of
\* several requests for the bricks of the column x = 0, so that a frame leaves
\* a backlog in both queues.  A frame carries at most as many requests as keep
\* the payload queue within MaxBacklog elements.
InitBacklog ==
    /\ InitManagerWith(1)
    /\ InitCache
    /\ InitGrid
    /\ InitPure
    /\ InitAllocator(BucketCount, ElementsPerBucket, {TRUE})
BacklogPositions == { p \in Positions : p[1] = 0 }
BacklogLists ==
    UNION { [1..n -> BacklogPositions] : n \in 0..(MaxBacklog - Len(brickmap_staged)) }
process_feedback_burst == FrameOf(BacklogLists)
SpecBacklog == InitBacklog /\ [][process_feedback_burst]_vars

\* A frame that finds no request while something is still queued.
drain_backlog ==
    /\ brickgrid_staged # {} \/ brickmap_staged # << >>
    /\ FrameOf({<< >>})

\* The same manager with the frame loop kept running: every redraw requests
\* the next one, so frames never stop.  Whether a frame carries requests is
\* the shader's choice; fairness is asked of the frames that carry none.
SpecDrain == SpecBacklog /\ WF_vars(drain_backlog)

\* The frame loop over worlds in which every brick has colours to upload:
\* 512 for every brick, or 1, 65, 257 and 512 by position, so that every
\* request allocates and the bricks compete for the bucket of 512-element
\* slots, which has as many slots as the cache.
DenseWorlds ==
    { [p \in FeedbackPositions |-> 512],
      [p \in FeedbackPositions |->
         IF p[2] = 0 THEN (IF p[1] % 2 = 0 THEN 1 ELSE 65)
                     ELSE (IF p[1] % 2 = 0 THEN 257 ELSE 512)] }
InitDense ==
    /\ InitManagerIn(2 * MaxRequests, DenseWorlds)
    /\ InitCache
    /\ InitGrid
    /\ InitPure
    /\ InitAllocator(BucketCount, ElementsPerBucket, {TRUE})
SpecDense == InitDense /\ [][process_feedback_buffer]_vars

\* The frame loop driven by the header of the feedback buffer: data[1] is the
\* request count the producer wrote, which may exceed the max_requested_brickmaps
\* records the buffer was built for.  Mapping bytes 16..16 + 16 * request_count
\* of a buffer of FeedbackBufferBytes bytes aborts when the range ends past
\* the buffer; otherwise the request_count records are handled.
FeedbackBufferBytes == 4 * (4 + 4 * MaxRequests)
HeaderCounts == 0..(2 * MaxRequests)
process_feedback_header ==
    \E request_count \in HeaderCounts :
       IF request_count # 0 /\ 16 + 16 * request_count > FeedbackBufferBytes
       THEN /\ ~panicked
            /\ Commit(Panic(Step(Manager, "header", request_count, MaxRequests),
                            request_count))
            /\ UNCHANGED <<world, request_order, loopVars, cacheVars, componentVars>>
       ELSE FrameOf([1..request_count -> BacklogPositions])
SpecHeader == Init /\ [][process_feedback_header]_vars

\* The frame loop with the order of the load requests recorded, for frames
\* that carry no request or one.
SingleRequests(P) == { << >> } \cup { <<p>> : p \in P }
process_feedback_tracked == TrackedFrame(SingleRequests(Positions))
SpecRecency == Init /\ [][process_feedback_tracked]_vars

\* The frame loop: on every redraw render is called, its result is dropped,
\* and update is called.
\*
\* render returns early when no surface texture can be acquired.  Otherwise
\* its submit first lets the queued buffer writes land (the reset of count),
\* then the raycast pass appends the requests of this frame behind the count
\* records the buffer holds, each record marked with the frame and its place
\* in it, and the feedback buffer is copied to the read-back buffer.  The
\* producer keeps count within the max_requested_brickmaps records of the
\* buffer.
Render ==
    /\ frame_pc = "render"
    /\ ~panicked
    /\ rendered < MaxFrames
    /\ rendered' = rendered + 1
    /\ frame_pc' = "update"
    /\ \/ /\ render_result' = "Err"
          /\ UNCHANGED <<feedback_buffer, feedback_result_buffer, feedback_reset_queued>>
       \/ \E landed \in { IF feedback_reset_queued
                           THEN [feedback_buffer EXCEPT !.count = 0]
                           ELSE feedback_buffer } :
          \E requests \in UNION { [1..n -> Positions] : n \in 0..(MaxRequests - landed.count) } :
            LET written == [count   |-> landed.count + Len(requests),
                            records |-> SubSeq(landed.records, 1, landed.count)
                                          \o [i \in 1..Len(requests) |->
                                                [grid_pos |-> requests[i],
                                                 id       |-> <<rendered + 1, i>>]]]
            IN  /\ render_result' = "Ok"
                /\ feedback_buffer' = written
                /\ feedback_result_buffer' = written
                /\ feedback_reset_queued' = FALSE
    /\ UNCHANGED <<brickgrid, brickmap_cache_map, brickmap_cache_idx,
                   shading_table_allocator, brickgrid_staged, brickmap_staged,
                   unpack_max_count, brickgrid_unpack, brickmap_unpack, panicked,
                   world, steps, request_order, host_reads,
                   cacheVars, componentVars>>

\* "Reset the request count on the gpu buffer": whether a write of count = 0
\* waits in the queue after process_feedback_buffer.  The call returns before
\* the write when it read no request, and never gets there when it aborted.
reset_request_count(queued, request_count, aborted) ==
    IF request_count = 0 THEN queued ELSE ~aborted

\* update: process_feedback_buffer on the read-back buffer.  With a count of
\* zero only the upload queues are drained; otherwise the count records are
\* handled and, unless a record aborted the process, the write of count = 0
\* to the feedback buffer is queued before the drain.
Update ==
    /\ frame_pc = "update"
    /\ frame_pc' = "render"
    /\ LET request_count == feedback_result_buffer.count
           data == [i \in 1..request_count |-> feedback_result_buffer.records[i].grid_pos]
       IN  /\ FrameBody({ data })
           /\ feedback_reset_queued' =
                 reset_request_count(feedback_reset_queued, request_count, panicked')
           /\ host_reads' = Append(host_reads,
                 [copied |-> render_result = "Ok",
                  ids    |-> { feedback_result_buffer.records[i].id : i \in 1..request_count }])
    /\ UNCHANGED <<request_order, feedback_buffer, feedback_result_buffer,
                   render_result, rendered>>

NextLoop == Render \/ Update
SpecLoop == Init /\ [][NextLoop]_vars

\* The codec of a brickgrid element, called with pointers around the powers
\* of two up to 2^29 and every flag.
PointerSamples ==
    { 2^e + d : e \in {0, 4, 8, 16, 23, 24, 28}, d \in {-1, 0, 1} } \cup { 2^29 - 1 }
BrickgridFlags == {FlagEmpty, FlagUnloaded, FlagLoading, FlagLoaded}
ElementNew ==
    /\ fn_call.op = "none"
    /\ \E cache_idx \in PointerSamples, flag \in BrickgridFlags :
         LET element == BrickgridElement_new(cache_idx, flag)
         IN  fn_call' = [op          |-> "BrickgridElement::new",
                         pointer     |-> cache_idx,
                         flag        |-> flag,
                         element     |-> element,
                         packed      |-> to_brickgrid_element(cache_idx, flag),
                         get_pointer |-> BrickgridElement_get_pointer(element),
                         get_flag    |-> BrickgridElement_get_flag(element)]
    /\ UNCHANGED <<managerVars, cacheVars, allocVars, gridVars>>

\* grid_pos_to_world_pos, called with components at both ends of the i32
\* range and around zero, and with chunks of 1, 3, 8 and 32 bricks a side.
AxisSamples == { MinI32, MinI32 + 1, MinI32 + 8, -33, -9, -8, -7, -1, 0, 1, 7, 8, 9, 31, MaxI32 }
GridPosSamples == { <<x, y, 0>> : x \in AxisSamples, y \in {-1, 0, 8} }
ChunkDimSamples == { <<d, d, d>> : d \in {1, 3, 8, 32} } \cup { <<8, 3, 1>> }
GridPosToWorldPos ==
    /\ fn_call.op = "none"
    /\ \E grid_pos \in GridPosSamples, chunk_dims \in ChunkDimSamples :
         LET r == grid_pos_to_world_pos(chunk_dims, grid_pos)
         IN  fn_call' = [op         |-> "grid_pos_to_world_pos",
                         grid_pos   |-> grid_pos,
                         chunk_dims |-> chunk_dims,
                         chunk_pos  |-> r.chunk_pos,
                         block_pos  |-> r.block_pos]
    /\ UNCHANGED <<managerVars, cacheVars, allocVars, gridVars>>

\* The contents of a brick in the culling runs: no voxel, every voxel, the
\* voxels with x + y + z even, the lower half, one voxel, all but one voxel.
ShapeKinds == {"empty", "solid", "checker", "slab"}
Shape(kind, at) == [kind |-> kind, at |-> at]
SolidIn(shape, x, y, z) ==
    CASE shape.kind = "empty"   -> FALSE
      [] shape.kind = "solid"   -> TRUE
      [] shape.kind = "checker" -> (x + y + z) % 2 = 0
      [] shape.kind = "slab"    -> y < 4
      [] shape.kind = "voxel"   -> x + 8 * y + 64 * z = shape.at
      [] shape.kind = "hole"    -> x + 8 * y + 64 * z # shape.at
\* The block the generator yields for a brick of that shape, every solid
\* voxel with a colour of its own.
BlockOf(shape) ==
    [idx \in 0..511 |->
        IF SolidIn(shape, idx % 8, (idx \div 8) % 8, idx \div 64)
        THEN <<idx % 256, idx \div 256, 3>>
        ELSE VoxelEmpty]
Directions ==
    [forward |-> <<1, 0, 0>>, backward |-> <<-1, 0, 0>>, left |-> <<0, 0, -1>>,
     right |-> <<0, 0, 1>>, up |-> <<0, 1, 0>>, down |-> <<0, -1, 0>>]
CenterShapes ==
    { Shape(k, 0) : k \in ShapeKinds \ {"empty"} }
      \cup { Shape("voxel", at) : at \in {0, 7, 219, 511} }
      \cup { Shape("hole", at) : at \in {0, 292} }
\* The six neighbouring bricks all have one shape, or all but one.
NeighbourKinds == {"empty", "solid", "checker"}
NeighbourShapes ==
    { [d \in DOMAIN Directions |-> IF d = odd THEN Shape(other, 0) ELSE Shape(base, 0)] :
        base \in NeighbourKinds, other \in NeighbourKinds, odd \in DOMAIN Directions }
CullGridPositions == { <<0, 0, 0>>, <<-1, 1, 0>> }
CullChunkDims == <<2, 2, 2>>
\* The blocks of the world in which the brick at grid_pos has the shape
\* center and its six neighbours the shapes around.
BlocksAround(grid_pos, center, around) ==
    LET key(q) == <<[i \in 1..3 |-> q[i] \div CullChunkDims[i]],
                    [i \in 1..3 |-> q[i] % CullChunkDims[i]]>>
        at(d)  == [i \in 1..3 |-> grid_pos[i] + Directions[d][i]]
    IN  [k \in { key(grid_pos) } \cup { key(at(d)) : d \in DOMAIN Directions } |->
            IF k = key(grid_pos)
            THEN BlockOf(center)
            ELSE BlockOf(around[CHOOSE d \in DOMAIN Directions : key(at(d)) = k])]
CullInteriorVoxels ==
    /\ fn_call.op = "none"
    /\ \E grid_pos \in CullGridPositions, center \in CenterShapes,
          around \in NeighbourShapes :
         LET r == util_cull_interior_voxels(BlocksAround(grid_pos, center, around),
                                            CullChunkDims, grid_pos)
         IN  fn_call' = [op           |-> "cull_interior_voxels",
                         grid_pos     |-> grid_pos,
                         center       |-> center,
                         around       |-> around,
                         bitmask_data |-> r.bitmask_data,
                         albedo_data  |-> r.albedo_data]
    /\ UNCHANGED <<managerVars, cacheVars, allocVars, gridVars>>

\* The free functions and the codec, one call per run.
NextPure == ElementNew \/ GridPosToWorldPos \/ CullInteriorVoxels
SpecPure == Init /\ [][NextPure]_vars

\* The stand-alone allocator under arbitrary calls.
InitAlloc ==
    /\ InitManager
    /\ InitCache
    /\ InitGrid
    /\ InitPure
    /\ \E cfg \in AllocConfigs : InitAllocator(cfg[1], cfg[2], BOOLEAN)
NextAlloc == TryAlloc \/ TryDealloc
SpecAlloc == InitAlloc /\ [][NextAlloc]_vars

\* The stand-alone Brickgrid under arbitrary calls.
NextGrid == GridSet \/ GridGet \/ GridUpload
SpecGrid == Init /\ [][NextGrid]_vars

\* A fresh allocator asked for single-element slots until it is exhausted.
ExhaustConfigs == { <<b, e>> : b \in 1..BucketCount, e \in {512, 1024, 1536} }
InitExhaust ==
    /\ InitManager
    /\ InitCache
    /\ InitGrid
    /\ InitPure
    /\ \E cfg \in ExhaustConfigs : InitAllocator(cfg[1], cfg[2], {TRUE})
SpecExhaust == InitExhaust /\ [][TryAllocOne]_vars

\* ============================================================== properties
\* The steps of the last process_feedback_buffer call, request by request.
RequestStarts == { k \in 1..Len(steps) : steps[k].op = "request" }

\* The last step of the request that starts at step k.
RequestEnd(k) ==
    IF \E j \in RequestStarts : j > k
    THEN (CHOOSE j \in RequestStarts :
             j > k /\ \A i \in RequestStarts : i > k => j <= i) - 1
    ELSE Len(steps)

StepsOf(k) == (k + 1)..RequestEnd(k)
\* The request a step belongs to.
RequestOf(j) == CHOOSE k \in RequestStarts : k <= j /\ j <= RequestEnd(k)
\* The manager's state when the request starting at step k begins and ends.
Before(k) == steps[k].post
After(k) == steps[RequestEnd(k)].post

SomeSlots(cmap) == { i \in DOMAIN cmap : cmap[i] # << >> }
\* The cache slots whose entry names cell c.
SlotsOf(cmap, c) == { i \in SomeSlots(cmap) : cmap[i][1].grid_idx = c }
CacheOffsets(cmap) == { cmap[i][1].shading_table_offset : i \in SomeSlots(cmap) }
LoadedWord(slot) == slot * 256 + 4

\* ---- C1
GridCacheConsistent(grid, cmap) ==
    /\ \A c \in DOMAIN grid :
          grid[c] % 16 = 4 =>
             /\ grid[c] \div 256 \in SomeSlots(cmap)
             /\ cmap[grid[c] \div 256][1].grid_idx = c
    /\ \A c \in DOMAIN grid :
          grid[c] % 16 \in {0, 1} => SlotsOf(cmap, c) = {}

\* C1: between any two processed requests, every Loaded cell's pointer names a
\* cache slot holding Some entry with that cell's index, and no cache slot
\* holds an entry naming an Empty or Unloaded cell.
C1_GridCacheConsistency ==
    /\ GridCacheConsistent(brickgrid, brickmap_cache_map)
    /\ \A k \in RequestStarts :
          GridCacheConsistent(Before(k).brickgrid, Before(k).brickmap_cache_map)

\* An eviction has just turned a cell Unloaded while other cells are Loaded.
C1_Witness ==
    /\ \E j \in 1..Len(steps) : steps[j].op = "grid_write" /\ steps[j].val = 1
    /\ \E c \in Cells : brickgrid[c] % 16 = 4
    /\ \E c \in Cells : brickgrid[c] = 1

\* ---- C2
NoLeakNoDoubleClaim(cmap, alloc) ==
    /\ UsedAddresses(alloc) = CacheOffsets(cmap)
    /\ \A i, j \in SomeSlots(cmap) :
          i # j => cmap[i][1].shading_table_offset # cmap[j][1].shading_table_offset

\* C2: after any sequence of requests the addresses marked used in the
\* allocator are exactly the offsets held by the Some cache entries, and no
\* offset is held by two entries.
C2_NoLeakNoDoubleAllocation ==
    /\ NoLeakNoDoubleClaim(brickmap_cache_map, shading_table_allocator)
    /\ \A k \in RequestStarts :
          NoLeakNoDoubleClaim(Before(k).brickmap_cache_map,
                              Before(k).shading_table_allocator)

\* A slot was freed in the last frame and the cache is full.
C2_Witness ==
    /\ \E j \in 1..Len(steps) : steps[j].op = "dealloc"
    /\ SomeSlots(brickmap_cache_map) = Slots

\* ---- C3
\* C3: whenever a cell whose element is Loaded is overwritten, the old brick's
\* shading slot has been deallocated and its cache slot set to None before the
\* new element is written to the grid.
C3_ReleaseBeforeOverwrite ==
    \A j \in 2..Len(steps) :
       (steps[j].op = "grid_write"
          /\ steps[j - 1].post.brickgrid[steps[j].idx] % 16 = 4) =>
       LET pre   == steps[j - 1].post
           p     == pre.brickgrid[steps[j].idx] \div 256
           k     == RequestOf(j)
           start == Before(k)
       IN  /\ pre.brickmap_cache_map[p] = << >>
           /\ SlotsOf(start.brickmap_cache_map, steps[j].idx) = {p}
           /\ start.brickmap_cache_map[p][1].shading_table_offset
                 \notin UsedAddresses(pre.shading_table_allocator)
           /\ \E i \in StepsOf(k) :
                 /\ i < j
                 /\ steps[i].op = "dealloc"
                 /\ steps[i].val = 1
                 /\ steps[i].idx = start.brickmap_cache_map[p][1].shading_table_offset

\* One request overwrote a Loaded cell by a refresh and another by eviction.
C3_Witness ==
    /\ \E j \in 2..Len(steps) :
          /\ steps[j].op = "grid_write" /\ steps[j].val = 1
          /\ steps[j - 1].post.brickgrid[steps[j].idx] % 16 = 4
    /\ \E j \in 2..Len(steps) :
          /\ steps[j].op = "grid_write" /\ steps[j].val % 16 = 4
          /\ steps[j - 1].post.brickgrid[steps[j].idx] % 16 = 4

\* ---- C4
NoSharedPointer(grid) ==
    \A c, d \in DOMAIN grid :
       (c # d /\ grid[c] % 16 = 4 /\ grid[d] % 16 = 4) =>
          grid[c] \div 256 # grid[d] \div 256

\* C4: at no intermediate step of a request do two grid cells both carry the
\* flag Loaded with the same cache-slot pointer (the evicted cell is cleared
\* before the requesting cell is written as Loaded with its slot).
C4_NoTwoCellsShareSlot ==
    \A j \in 1..Len(steps) : NoSharedPointer(steps[j].post.brickgrid)

\* ---- C5
\* C5: when a new brick evicts another cell's entry, that entry's shading slot
\* is returned to the allocator and the evicted cell becomes Unloaded, not
\* Empty; its brick still has colours, so a later request loads it again.
C5_EvictedBecomesUnloaded ==
    \A k \in RequestStarts :
       LET start == Before(k)
           occ   == start.brickmap_cache_map[start.brickmap_cache_idx]
       IN  (steps[k].val > 0 /\ occ # << >> /\ occ[1].grid_idx # steps[k].idx) =>
           /\ After(k).brickgrid[occ[1].grid_idx] = 1
           /\ \E j \in StepsOf(k) :
                 /\ steps[j].op = "dealloc"
                 /\ steps[j].idx = occ[1].shading_table_offset
                 /\ steps[j].val = 1
                 /\ occ[1].shading_table_offset
                       \notin UsedAddresses(steps[j].post.shading_table_allocator)
           /\ \A p \in Positions :
                 to_1d_index(p, brickgrid_dims) = occ[1].grid_idx => world[p] > 0

\* The last request evicted another cell's brick.
C5_Witness ==
    \E k \in RequestStarts :
       LET start == Before(k)
           occ   == start.brickmap_cache_map[start.brickmap_cache_idx]
       IN  /\ steps[k].val > 0 /\ occ # << >> /\ occ[1].grid_idx # steps[k].idx
           /\ brickgrid[occ[1].grid_idx] = 1

\* ---- C6
C6_RequestEffects ==
    \A k \in RequestStarts :
       LET S0 == Before(k)
           S1 == After(k)
           c  == steps[k].idx
           N  == steps[k].val
           allocs == { j \in StepsOf(k) : steps[j].op = "alloc" }
       IN  S0.brickgrid[c] = 1 =>
           IF N = 0
           THEN /\ S1.brickgrid[c] = 0
                /\ S1.brickmap_cache_map = S0.brickmap_cache_map
                /\ S1.brickmap_cache_idx = S0.brickmap_cache_idx
                /\ S1.shading_table_allocator = S0.shading_table_allocator
           ELSE /\ S1.brickgrid[c] = S0.brickmap_cache_idx * 256 + 4
                /\ SlotsOf(S0.brickmap_cache_map, c) = {}
                /\ SlotsOf(S1.brickmap_cache_map, c) = {S0.brickmap_cache_idx}
                /\ \A i \in Slots :
                      i # S0.brickmap_cache_idx =>
                         S1.brickmap_cache_map[i] = S0.brickmap_cache_map[i]
                /\ Cardinality(allocs) = 1
                /\ \A j \in allocs :
                      /\ steps[j].val = N
                      /\ SlotSizeOf(S1.shading_table_allocator, steps[j].idx) >= N
                      /\ steps[j].idx \in UsedAddresses(S1.shading_table_allocator)
                      /\ steps[j].idx \notin
                            UsedAddresses(steps[j - 1].post.shading_table_allocator)
                      /\ S1.brickmap_cache_map[S0.brickmap_cache_idx][1].shading_table_offset
                            = steps[j].idx

\* C6: every grid cell starts Unloaded.  A request for an Unloaded cell whose
\* culled colour list is empty makes the cell Empty and changes neither the
\* cache nor the allocator; one with N > 0 colours makes the cell Loaded with
\* the pointer of the slot just written, adds exactly one cache entry with the
\* cell's grid_idx and makes exactly one allocation whose slot size is >= N.
C6_UnloadedCellLifecycle ==
    /\ \A c \in Cells : brickgrid[c] = 1
    /\ []C6_RequestEffects

\* Both kinds of request have been handled: one cell is Empty, and the last
\* request loaded an Unloaded cell.
C6_Witness ==
    /\ \E c \in Cells : brickgrid[c] = 0
    /\ \E k \in RequestStarts :
          /\ Before(k).brickgrid[steps[k].idx] = 1
          /\ steps[k].val > 0
          /\ brickgrid[steps[k].idx] % 16 = 4

\* ---- C7
\* C7: a request for a cell whose previous element was Loaded removes the
\* cell's old cache entry and deallocates its old shading slot exactly once,
\* whether the result is Empty or Loaded; after a refresh exactly one cache
\* slot references the cell and the cell's pointer names that slot.
C7_ReRequestReleasesOnce ==
    \A k \in RequestStarts :
       LET S0  == Before(k)
           S1  == After(k)
           c   == steps[k].idx
           p   == S0.brickgrid[c] \div 256
           old == S0.brickmap_cache_map[p][1]
       IN  (c \in Cells /\ S0.brickgrid[c] % 16 = 4
              /\ \A j \in StepsOf(k) : steps[j].op # "panic") =>
           /\ Cardinality({ j \in StepsOf(k) :
                 steps[j].op = "cache_none" /\ steps[j].val = c }) = 1
           /\ \E j \in StepsOf(k) :
                 /\ steps[j].op = "cache_none" /\ steps[j].val = c /\ steps[j].idx = p
                 /\ steps[j].post.brickmap_cache_map[p] = << >>
           /\ Cardinality({ j \in StepsOf(k) :
                 steps[j].op = "dealloc"
                    /\ steps[j].idx = old.shading_table_offset }) = 1
           /\ \A j \in StepsOf(k) : steps[j].op = "dealloc" => steps[j].val = 1
           /\ \A j \in StepsOf(k) : steps[j].op # "warn_none"
           /\ IF steps[k].val = 0
              THEN /\ S1.brickgrid[c] = 0
                   /\ SlotsOf(S1.brickmap_cache_map, c) = {}
                   /\ old.shading_table_offset
                         \notin UsedAddresses(S1.shading_table_allocator)
              ELSE /\ S1.brickgrid[c] % 16 = 4
                   /\ SlotsOf(S1.brickmap_cache_map, c) = {S1.brickgrid[c] \div 256}

\* A Loaded cell was requested again and came out Empty.
C7_EmptyReached ==
    \E k \in RequestStarts :
       /\ steps[k].idx \in Cells
       /\ Before(k).brickgrid[steps[k].idx] % 16 = 4
       /\ steps[k].val = 0
       /\ brickgrid[steps[k].idx] = 0

\* A Loaded cell was requested again and refreshed into another slot.
C7_Witness ==
    \E k \in RequestStarts :
       /\ steps[k].idx \in Cells
       /\ Before(k).brickgrid[steps[k].idx] % 16 = 4
       /\ steps[k].val > 0
       /\ brickgrid[steps[k].idx] % 16 = 4
       /\ brickgrid[steps[k].idx] # Before(k).brickgrid[steps[k].idx]

\* ---- C8
AddCalls == { k \in 1..Len(calls) : calls[k].op = "add_entry" }
EntryOf(call) ==
    <<[grid_idx |-> call.grid_idx, shading_table_offset |-> call.shading_table_offset]>>

\* C8: in a cache of capacity C with no remove_entry calls, the first C calls
\* of add_entry return None and the k-th call, k > C, returns the entry the
\* (k - C)-th call inserted; the (C + 1)-th returns the first one inserted.
C8_FifoEviction ==
    (AddCalls = 1..Len(calls)) =>
       \A k \in 1..Len(calls) :
          IF k <= CacheSize
          THEN calls[k].ret = << >>
          ELSE /\ calls[k].ret = EntryOf(calls[k - CacheSize])
               /\ calls[k].ret[1].grid_idx = calls[k - CacheSize].grid_idx

\* C + 1 inserts without a remove: the last one evicted an entry.
C8_Witness ==
    /\ AddCalls = 1..Len(calls)
    /\ Len(calls) = CacheSize + 1
    /\ calls[CacheSize + 1].ret # << >>

\* ---- C9
AddStep == calls' # calls /\ calls'[Len(calls')].op = "add_entry"
RemoveStep == calls' # calls /\ calls'[Len(calls')].op = "remove_entry"

\* C9: every add_entry call advances the ring index by one modulo the
\* capacity, stores the new entry at the advanced index, appends one payload
\* for that slot to the staged queue and returns the entry that occupied the
\* slot right before the call, None only if the slot was None.
C9_AddEntryContract ==
    [][AddStep =>
         LET e    == calls'[Len(calls')]
             slot == (index + 1) % CacheSize
         IN  /\ index' = slot
             /\ cache'[slot] = EntryOf(e)
             /\ \A i \in Slots : i # slot => cache'[i] = cache[i]
             /\ staged' = Append(staged,
                                 [cache_idx |-> slot,
                                  shading_table_offset |-> e.shading_table_offset,
                                  shading_element_count |-> e.len])
             /\ e.ret = cache[slot]
             /\ (e.ret = << >>) <=> (cache[slot] = << >>)]_vars

\* The last add_entry call wrapped the ring index to 0 and returned an entry.
C9_Witness ==
    /\ calls # << >>
    /\ calls[Len(calls)].op = "add_entry"
    /\ calls[Len(calls)].ret # << >>
    /\ index = 0
    /\ cache[0] = EntryOf(calls[Len(calls)])

\* ---- C10
NumSome == Cardinality({ i \in Slots : cache[i] # << >> })

\* C10: remove_entry(i) on an occupied slot returns its entry, sets the slot
\* to None and decrements num_loaded by one without moving the ring index; on
\* an empty slot it returns None and changes nothing.  After any sequence of
\* add_entry and remove_entry calls num_loaded is the number of Some slots and
\* lies in 0..capacity.
C10_RemoveEntryContract ==
    /\ [][RemoveStep =>
            LET e == calls'[Len(calls')]
            IN  /\ e.ret = cache[e.slot]
                /\ index' = index
                /\ staged' = staged
                /\ IF cache[e.slot] # << >>
                   THEN /\ cache' = [cache EXCEPT ![e.slot] = << >>]
                        /\ num_loaded' = num_loaded - 1
                   ELSE /\ cache' = cache
                        /\ num_loaded' = num_loaded]_vars
    /\ [](num_loaded = NumSome /\ num_loaded \in 0..CacheSize)

\* An occupied slot has just been removed while another stays loaded.
C10_Witness ==
    /\ calls # << >>
    /\ calls[Len(calls)].op = "remove_entry"
    /\ calls[Len(calls)].ret # << >>
    /\ cache[calls[Len(calls)].slot] = << >>
    /\ num_loaded = 1

\* ---- C11
\* The allocator before the k-th recorded call.
AllocPre(k) ==
    IF k = 1
    THEN ShadingTableAllocator_new(allocator.bucket_count, allocator.elements_per_bucket)
    ELSE alloc_calls[k - 1].post
FreeLists(a) == [k \in 1..a.bucket_count |-> a.buckets[k].free]
UsedLists(a) == [k \in 1..a.bucket_count |-> a.buckets[k].used]

\* A successful try_alloc(s) at call k followed at once by try_dealloc of the
\* address it returned.
AllocThenDealloc(k) ==
    /\ k + 1 <= Len(alloc_calls)
    /\ alloc_calls[k].op = "try_alloc"
    /\ alloc_calls[k].ret # << >>
    /\ alloc_calls[k + 1].op = "try_dealloc"
    /\ alloc_calls[k + 1].arg = alloc_calls[k].ret[1]

\* Sizes on both sides of every slot size.
RoundTripSizes == {1, 64, 65, 128, 129, 256, 257, 512}

\* C11: in every reachable allocator state and for every size s for which
\* try_alloc(s) returns Some(a), the following try_dealloc(a) succeeds and
\* restores every bucket's free list to its state before the alloc, so that an
\* immediately following try_alloc(s) returns a again.
C11_AllocDeallocRoundTrip ==
    /\ \A k \in 1..Len(alloc_calls) :
          AllocThenDealloc(k) =>
             /\ alloc_calls[k + 1].ret = "Ok"
             /\ FreeLists(alloc_calls[k + 1].post) = FreeLists(AllocPre(k))
             /\ (k + 2 <= Len(alloc_calls)
                   /\ alloc_calls[k + 2].op = "try_alloc"
                   /\ alloc_calls[k + 2].arg = alloc_calls[k].arg) =>
                alloc_calls[k + 2].ret = alloc_calls[k].ret
    /\ ~alloc_panicked =>
          \A size \in RoundTripSizes :
             LET r1 == ShadingTableAllocator_try_alloc(allocator, size)
             IN  r1.ret # << >> =>
                 \A d \in { checked_try_dealloc(r1.alloc, r1.ret[1]) } :
                    /\ d.ret = "Ok"
                    /\ FreeLists(d.alloc) = FreeLists(allocator)
                    /\ ShadingTableAllocator_try_alloc(d.alloc, size).ret = r1.ret

\* With other slots live, a slot was allocated, freed and allocated again.
C11_Witness ==
    /\ Len(alloc_calls) = 4
    /\ alloc_calls[1].op = "try_alloc" /\ alloc_calls[1].ret # << >>
    /\ AllocThenDealloc(2)
    /\ alloc_calls[4].op = "try_alloc"
    /\ alloc_calls[4].arg = alloc_calls[2].arg
    /\ alloc_calls[4].ret = alloc_calls[2].ret
    /\ alloc_calls[2].arg = alloc_calls[1].arg

\* ---- C12
\* The calls that returned an address.
SomeCalls == { k \in 1..Len(alloc_calls) :
                 alloc_calls[k].op = "try_alloc" /\ alloc_calls[k].ret # << >> }
\* total_elements / min_slot_size + 1
ExhaustionLimit ==
    allocator.total_elements \div allocator.buckets[1].slot_size + 1

\* C12: from a fresh allocator, try_alloc(1) repeated without freeing returns
\* None within total_elements / min_slot_size + 1 calls (fewer than that many
\* calls return an address); the addresses returned are pairwise distinct,
\* their slots do not overlap, and all of them remain allocated.
C12_Exhaustion ==
    /\ Cardinality(SomeCalls) < ExhaustionLimit
    /\ \A k \in 1..Len(alloc_calls) :
          alloc_calls[k].ret = << >> =>
             \A j \in k..Len(alloc_calls) : alloc_calls[j].ret = << >>
    /\ \A i, j \in SomeCalls :
          i # j =>
             LET ai == alloc_calls[i].ret[1]
                 aj == alloc_calls[j].ret[1]
             IN  /\ ai # aj
                 /\ \/ ai + SlotSizeOf(allocator, ai) <= aj
                    \/ aj + SlotSizeOf(allocator, aj) <= ai
    /\ \A i \in SomeCalls :
          /\ alloc_calls[i].ret[1] \in UsedAddresses(allocator)
          /\ alloc_calls[i].ret[1] + SlotSizeOf(allocator, alloc_calls[i].ret[1])
                <= allocator.total_elements

\* An allocator with several buckets was filled and then returned None.
C12_Witness ==
    /\ allocator.bucket_count > 1
    /\ Cardinality(SomeCalls) >= 7
    /\ alloc_calls[Len(alloc_calls)].ret = << >>
    /\ \A k \in 1..allocator.bucket_count : allocator.buckets[k].free = << >>

\* ---- C13
\* The buckets of a that can serve a request for size elements.
Eligible(a, size) ==
    { b \in 1..a.bucket_count :
         a.buckets[b].slot_size >= size /\ a.buckets[b].free # << >> }

\* C13: try_alloc(size) takes a slot from the bucket with the smallest
\* slot_size >= size that still has a free slot, returns
\* bucket.global_offset + local_index * slot_size, and returns None if and
\* only if every bucket with slot_size >= size has no free slot.
C13_TryAllocContract ==
    \A k \in 1..Len(alloc_calls) :
       alloc_calls[k].op = "try_alloc" =>
          LET P    == AllocPre(k)
              Q    == alloc_calls[k].post
              size == alloc_calls[k].arg
              E    == Eligible(P, size)
          IN  IF E = {}
              THEN alloc_calls[k].ret = << >> /\ Q = P
              ELSE LET b  == CHOOSE b \in E :
                                \A c \in E : P.buckets[b].slot_size <= P.buckets[c].slot_size
                       li == P.buckets[b].free[Len(P.buckets[b].free)]
                   IN  /\ alloc_calls[k].ret =
                             << P.buckets[b].global_offset + li * P.buckets[b].slot_size >>
                       /\ Q.buckets[b].free =
                             SubSeq(P.buckets[b].free, 1, Len(P.buckets[b].free) - 1)
                       /\ Q.buckets[b].used = Append(P.buckets[b].used, li)
                       /\ \A c \in 1..P.bucket_count :
                             c # b => Q.buckets[c] = P.buckets[c]

\* The bucket with the smallest slots is full, so a request for one element
\* was served from a larger bucket; and a request no bucket can hold failed.
C13_Witness ==
    \E k \in 1..Len(alloc_calls) :
       /\ alloc_calls[k].op = "try_alloc"
       /\ alloc_calls[k].arg = 1
       /\ alloc_calls[k].ret # << >>
       /\ AllocPre(k).buckets[1].free = << >>
       /\ SlotSizeOf(allocator, alloc_calls[k].ret[1]) > allocator.buckets[1].slot_size

\* ---- C14
DeallocCalls == { k \in 1..Len(alloc_calls) : alloc_calls[k].op = "try_dealloc" }
\* The buckets of a whose slots cover address.
Owners(a, address) ==
    { b \in 1..a.bucket_count :
         /\ a.buckets[b].global_offset <= address
         /\ address < a.buckets[b].global_offset
                         + a.buckets[b].slot_count * a.buckets[b].slot_size }
\* The result the error cases of try_dealloc prescribe for address in state a.
ExpectedDealloc(a, address) ==
    IF Owners(a, address) = {}
    THEN "AddressOutOfRange"
    ELSE LET b == CHOOSE b \in Owners(a, address) : TRUE
         IN  IF (address - a.buckets[b].global_offset) % a.buckets[b].slot_size # 0
             THEN "Misaligned"
             ELSE IF address \notin UsedAddresses(a)
             THEN "NotAllocated"
             ELSE "Ok"

\* C14: try_dealloc never panics and returns AddressOutOfRange for an address
\* outside the table (any address >= bucket_count * elements_per_bucket
\* included), Misaligned for an address whose offset in its bucket is not a
\* multiple of the slot size, and NotAllocated for an aligned address whose
\* slot is not in use (a second dealloc of the same address included).
C14_DeallocErrorsNeverPanic ==
    /\ ~alloc_panicked
    /\ \A k \in DeallocCalls :
          alloc_calls[k].ret = ExpectedDealloc(AllocPre(k), alloc_calls[k].arg)

\* ---- C15
DeallocErrors == {"AddressOutOfRange", "Misaligned", "NotAllocated"}

GridSetStep ==
    grid_calls' # grid_calls /\ grid_calls'[Len(grid_calls')].op = "set"
GridGetStep ==
    grid_calls' # grid_calls /\ grid_calls'[Len(grid_calls')].op = "get"
\* The element of the most recent set on index i before call k, or Unloaded
\* with pointer 0 if there is none.
LastSetBefore(k, i) ==
    LET S == { j \in 1..(k - 1) :
                  grid_calls[j].op = "set" /\ grid_calls[j].index = i }
    IN  IF S = {}
        THEN 0 * 256 + 1
        ELSE grid_calls[CHOOSE j \in S : \A h \in S : h <= j].value

\* C16: set(index, element) returns the element stored at index before the
\* call, stores the new element unconditionally, adds index to the dirty set
\* and changes no other cell; get(index) returns the element of the most
\* recent set on that index, or Unloaded with pointer 0 if there is none.
C16_SetGetContract ==
    /\ [][GridSetStep =>
            LET e == grid_calls'[Len(grid_calls')]
            IN  /\ e.ret = grid_data[e.index]
                /\ grid_data'[e.index] = e.value
                /\ \A c \in Cells : c # e.index => grid_data'[c] = grid_data[c]
                /\ grid_staged' = grid_staged \cup {e.index}]_vars
    /\ [][GridGetStep => grid_data' = grid_data /\ grid_staged' = grid_staged]_vars
    /\ [](\A k \in 1..Len(grid_calls) :
             grid_calls[k].ret = LastSetBefore(k, grid_calls[k].index))

\* An index was set twice, the second set returned the first element, and a
\* get then returned the second.
C16_Witness ==
    /\ Len(grid_calls) = 3
    /\ grid_calls[1].op = "set" /\ grid_calls[2].op = "set" /\ grid_calls[3].op = "get"
    /\ grid_calls[1].index = grid_calls[2].index
    /\ grid_calls[2].index = grid_calls[3].index
    /\ grid_calls[1].value # grid_calls[2].value
    /\ grid_calls[2].ret = grid_calls[1].value
    /\ grid_calls[3].ret = grid_calls[2].value

\* ---- C17
GridUploadStep ==
    /\ grid_calls' = grid_calls
    /\ (grid_staged' # grid_staged \/ grid_upload_buffer' # grid_upload_buffer)

\* C17: a brickgrid drain with limit max_upload_count removes exactly
\* min(max_upload_count, |dirty|) indices from the dirty set and emits one
\* (index, element) record for each removed index; every dirty index not
\* removed stays dirty for the next drain, and no index that was not dirty is
\* emitted.
C17_GridDrain ==
    [][GridUploadStep =>
         LET removed == grid_staged \ grid_staged'
             limit   == IF MaxUpload < Cardinality(grid_staged)
                        THEN MaxUpload ELSE Cardinality(grid_staged)
         IN  /\ grid_staged' \subseteq grid_staged
             /\ Cardinality(removed) = limit
             /\ grid_upload_buffer'.records = { <<i, grid_data[i]>> : i \in removed }
             /\ Cardinality(grid_upload_buffer'.records) = limit
             /\ \A r \in grid_upload_buffer'.records : r[1] \in grid_staged
             /\ grid_data' = grid_data]_vars

\* A drain emitted records and left other indices dirty.
C17_Witness ==
    /\ grid_upload_buffer.records # {}
    /\ Cardinality(grid_staged) >= 2
    /\ \A r \in grid_upload_buffer.records :
          r[1] \notin grid_staged /\ r[2] = grid_data[r[1]]

\* ---- C18
CacheUploadStep == calls' = calls /\ staged' # staged

\* C18: a brickmap-cache drain removes exactly min(max_upload_count, |staged|)
\* payloads from the front of the staged queue and hands over exactly those;
\* the remaining payloads stay staged in their original order, and each
\* payload carries at most 512 colour words.
C18_CacheDrain ==
    /\ [][CacheUploadStep =>
            LET count == IF MaxUpload < Len(staged) THEN MaxUpload ELSE Len(staged)
            IN  /\ Len(staged') = Len(staged) - count
                /\ upload_buffer'.count = count
                /\ Len(upload_buffer'.data) = count
                /\ \A i \in 1..count : upload_buffer'.data[i] = staged[i]
                /\ \A i \in 1..Len(staged') : staged'[i] = staged[count + i]
                /\ cache' = cache /\ index' = index /\ num_loaded' = num_loaded]_vars
    /\ [](/\ \A i \in 1..Len(staged) : staged[i].shading_element_count \in 0..512
          /\ \A i \in 1..Len(upload_buffer.data) :
                upload_buffer.data[i].shading_element_count \in 0..512)

\* A drain handed over a full payload and left at least two staged.
C18_Witness ==
    /\ upload_buffer.count = MaxUpload
    /\ upload_buffer.data[1].shading_element_count = 512
    /\ Len(staged) >= 2
    /\ Len(calls) >= 3

\* ---- C19
\* The cells the frame's request loop wrote, and the payloads it staged, in
\* the order of the loop.
FrameWrites == { steps'[k].idx : k \in { j \in 1..Len(steps') : steps'[j].op = "grid_write" } }
FrameStages == SelectSeq(steps', LAMBDA s : s.op = "stage")

\* C19: every call of process_feedback_buffer that returns, the ones with a
\* request count of zero included, drains both queues once: it removes
\* min(unpack_max_count, size) cells from the dirty set (what earlier frames
\* left plus what this frame wrote) and hands over exactly their records, and
\* it removes that many payloads from the front of the staged payloads (what
\* earlier frames left followed by what this frame staged) and hands over
\* exactly those, so that a frame without requests shrinks each backlog by
\* min(unpack_max_count, size).
C19_DrainEveryFrame ==
    [][panicked' \/
       LET dirty   == brickgrid_staged \cup FrameWrites
           removed == dirty \ brickgrid_staged'
           queue   == brickmap_unpack'.data \o brickmap_staged'
           end     == Min(unpack_max_count, Len(queue))
       IN  /\ brickgrid_staged' \subseteq dirty
           /\ Cardinality(removed) = Min(unpack_max_count, Cardinality(dirty))
           /\ brickgrid_unpack'.count = 2 * Cardinality(removed)
           /\ brickgrid_unpack'.records = { <<i, brickgrid'[i]>> : i \in removed }
           /\ Len(queue) = Len(brickmap_staged) + Len(FrameStages)
           /\ \A i \in 1..Len(brickmap_staged) : queue[i] = brickmap_staged[i]
           /\ \A i \in 1..Len(FrameStages) :
                  /\ queue[Len(brickmap_staged) + i].cache_idx = FrameStages[i].idx
                  /\ queue[Len(brickmap_staged) + i].shading_element_count = FrameStages[i].val
           /\ brickmap_unpack'.count = end
           /\ Len(brickmap_unpack'.data) = end
           /\ steps' = << >> =>
                  /\ Cardinality(brickgrid_staged') =
                        Cardinality(brickgrid_staged)
                          - Min(unpack_max_count, Cardinality(brickgrid_staged))
                  /\ Len(brickmap_staged') =
                        Len(brickmap_staged) - Min(unpack_max_count, Len(brickmap_staged))]_vars

\* A frame without requests drained a record of each queue that an earlier
\* frame had left behind.
C19_Witness ==
    /\ steps = << >>
    /\ ~panicked
    /\ brickgrid_unpack.count = 2
    /\ brickmap_unpack.count = 1

\* ---- C20
\* The requests of the last frame that are followed at once by a request for
\* the same cell, both handled without a panic.
RepeatedRequests ==
    { k \in RequestStarts :
        /\ RequestEnd(k) < Len(steps)
        /\ steps[RequestEnd(k) + 1].idx = steps[k].idx
        /\ steps[k].idx \in Cells
        /\ \A j \in 1..RequestEnd(RequestEnd(k) + 1) : steps[j].op # "panic" }
Again(k) == RequestEnd(k) + 1

\* C20 as stated: handling a request for the same cell twice in succession
\* leaves the grid, the cache entries, the ring index and the allocator as
\* handling it once does.
C20_RequestsIdempotent ==
    \A k \in RepeatedRequests : After(Again(k)) = After(k)

\* C20: a request whose culled colour list is empty is idempotent: handling
\* it twice in succession leaves the grid, the cache entries, the ring index
\* and the allocator as handling it once does.  A repeated request for a
\* non-empty brick is a refresh: the cell stays Loaded but points at the ring
\* slot that followed the one the first handling wrote, exactly that slot
\* references the cell, the ring index has advanced once more, the brick
\* that occupied that slot is turned Unloaded and every other cell is as the
\* first handling left it.
C20_RepeatedRequestRefreshes ==
    \A k \in RepeatedRequests :
       LET S1   == After(k)
           S2   == After(Again(k))
           c    == steps[k].idx
           slot == S1.brickmap_cache_idx
       IN  IF steps[k].val = 0
           THEN S2 = S1
           ELSE /\ S1.brickgrid[c] = LoadedWord((slot + CacheSize - 1) % CacheSize)
                /\ S2.brickgrid[c] = LoadedWord(slot)
                /\ SlotsOf(S2.brickmap_cache_map, c) = {slot}
                /\ S2.brickmap_cache_idx = (slot + 1) % CacheSize
                /\ \A d \in Cells \ {c} :
                      S2.brickgrid[d] = IF S1.brickgrid[d] = LoadedWord(slot)
                                        THEN 1
                                        ELSE S1.brickgrid[d]
                /\ SlotsOf(S1.brickmap_cache_map, c) # SlotsOf(S2.brickmap_cache_map, c)

\* A brick was requested twice in succession and the second handling moved it
\* into the slot of another brick, which it evicted.
C20_Witness ==
    \E k \in RepeatedRequests :
       /\ steps[k].val > 0
       /\ \E j \in StepsOf(Again(k)) : steps[j].op = "grid_write" /\ steps[j].val = 1
       /\ brickgrid[steps[k].idx] % 16 = 4

\* ---- C21
\* The steps of the last frame that turn a cell back to Unloaded: only
\* unload_cache_spot writes the word 1.
Evictions == { j \in 1..Len(steps) : steps[j].op = "grid_write" /\ steps[j].val = 1 }
LoadedCells(grid) == { c \in DOMAIN grid : grid[c] % 16 = 4 }

\* C21: a request turns another cell from Loaded back to Unloaded only if the
\* loaded bricks, the evicted one counted in, would exceed the cache
\* capacity, and no cache slot other than the one being rewritten is free
\* (None) when a cell is evicted.
C21_EvictOnlyWhenFull ==
    \A j \in Evictions :
       LET S == steps[j].post
       IN  /\ Cardinality(LoadedCells(S.brickgrid)) + 1 > CacheSize
           /\ \A i \in Slots \ {S.brickmap_cache_idx} : S.brickmap_cache_map[i] # None

\* ---- C22
\* The place of cell c in the order of the last load requests.
PlaceOf(order, c) == CHOOSE i \in 1..Len(order) : order[i] = c

\* C22: whenever a request evicts a cell, every other cell that is Loaded at
\* that moment has had its most recent load request after the most recent
\* load request of the evicted cell.
C22_EvictsLeastRecentlyRequested ==
    [][\A j \in { i \in 1..Len(steps') :
                    steps'[i].op = "grid_write" /\ steps'[i].val = 1 } :
         LET order   == LoadOrder(request_order, steps', 1, j)
             evicted == steps'[j].idx
             loaded  == LoadedCells(steps'[j].post.brickgrid)
         IN  /\ \E i \in 1..Len(order) : order[i] = evicted
             /\ \A c \in loaded \ {evicted} :
                   /\ \E i \in 1..Len(order) : order[i] = c
                   /\ PlaceOf(order, evicted) < PlaceOf(order, c)]_vars

\* A request has just evicted a cell while a cell loaded by an earlier frame
\* stays Loaded next to the requested one.
C22_Witness ==
    /\ Evictions # {}
    /\ Cardinality(LoadedCells(brickgrid)) >= 2
    /\ Len(request_order) >= 3

\* ---- C23
\* C23: handling a request whose position lies outside brickgrid_dims aborts
\* and leaves the grid, the cache map, the ring index, the allocator and
\* both upload queues as they were.
C23_OutOfGridRejected ==
    panicked \/
    \A p \in FeedbackPositions \ Positions :
       LET m == handle_request(Manager, p, cull_interior_voxels(world, p))
       IN  /\ m.panicked
           /\ Snapshot(m) = Snapshot(Manager)
           /\ m.brickgrid_staged = brickgrid_staged
           /\ m.brickmap_staged = brickmap_staged

\* ---- C24
\* C24: a frame whose header count exceeds the capacity of the request list
\* completes without error and handles at most max_requested_brickmaps
\* requests.
C24_ExcessRequestsIgnored ==
    \A j \in 1..Len(steps) :
       (steps[j].op = "header" /\ steps[j].idx > steps[j].val) =>
          /\ ~panicked
          /\ Cardinality(RequestStarts) <= MaxRequests

\* ---- C25
\* C25: over any sequence of in-bounds requests every try_dealloc the manager
\* issues returns Ok, and the manager never finds None in the cache slot a
\* Loaded cell points at.
C25_NoBookkeepingErrors ==
    \A j \in 1..Len(steps) :
       /\ steps[j].op = "dealloc" => steps[j].val = 1
       /\ steps[j].op # "warn_none"

\* The last frame released two bricks: the requested cell's old one and the
\* occupant of the ring slot.
C25_Witness ==
    /\ Cardinality({ j \in 1..Len(steps) : steps[j].op = "dealloc" }) >= 2
    /\ ~panicked

\* ---- C29
\* The flag changes the state machine of a grid cell allows, as pairs of
\* BrickgridFlag discriminants: Unloaded to Empty, Unloaded to Loaded, Loaded
\* to Unloaded, Loaded to Loaded.
AllowedFlagChanges == { <<1, 0>>, <<1, 4>>, <<4, 1>>, <<4, 4>> }
GridWrites == { j \in 2..Len(steps) : steps[j].op = "grid_write" }
FlagChange(j) ==
    <<steps[j - 1].post.brickgrid[steps[j].idx] % 16,
      steps[j].post.brickgrid[steps[j].idx] % 16>>

\* C29: every write that changes a grid cell's flag takes it from Unloaded to
\* Empty, from Unloaded to Loaded or from Loaded to Unloaded, a write that
\* keeps the flag keeps Empty or Loaded, and no cell ever holds Loading.
C29_CellStateMachine ==
    /\ \A j \in GridWrites :
          LET ch == FlagChange(j)
          IN  ch \in AllowedFlagChanges \/ ch = <<0, 0>>
    /\ \A c \in Cells : brickgrid[c] % 16 # 2

\* ---- C30
\* The try_alloc calls made so far that returned an address.
AllocCalls ==
    { n \in 1..Len(alloc_calls) :
        alloc_calls[n].op = "try_alloc" /\ IsSome(alloc_calls[n].ret) }
\* The buckets of a, counted from the largest, that hold address as used.
HoldersOf(a, address) ==
    { i \in 0..(a.bucket_count - 1) :
        LET b == a.buckets[a.bucket_count - i]
        IN  \E j \in 1..Len(b.used) :
               b.global_offset + b.used[j] * b.slot_size = address }

\* C30: bucket i, counted from the largest, has slot_size 2^(9 - i),
\* slot_count floor(elements_per_bucket / slot_size) and an address range
\* starting at i * elements_per_bucket; the ranges of two buckets do not
\* overlap; every address try_alloc returns is held by one bucket i and
\* satisfies address + slot_size <= (i + 1) * elements_per_bucket
\* <= bucket_count * elements_per_bucket.
C30_BucketLayout ==
    LET bc  == allocator.bucket_count
        epb == allocator.elements_per_bucket
        B(i) == allocator.buckets[bc - i]
        End(i) == B(i).global_offset + B(i).slot_count * B(i).slot_size
    IN  /\ Len(allocator.buckets) = bc
        /\ \A i \in 0..(bc - 1) :
              /\ B(i).slot_size = 2^(9 - i)
              /\ B(i).slot_count * B(i).slot_size <= epb
              /\ epb < (B(i).slot_count + 1) * B(i).slot_size
              /\ B(i).global_offset = i * epb
        /\ \A i, j \in 0..(bc - 1) :
              i < j => End(i) <= B(j).global_offset
        /\ \A n \in AllocCalls :
              LET address == Unwrap(alloc_calls[n].ret)
                  holders == HoldersOf(alloc_calls[n].post, address)
              IN  /\ Cardinality(holders) = 1
                  /\ \A i \in holders :
                        /\ address + B(i).slot_size <= (i + 1) * epb
                        /\ (i + 1) * epb <= bc * epb

\* With buckets of 768 elements, the last 256-element slot of the second
\* bucket has been handed out: it ends at the end of the table.
C30_Witness ==
    /\ allocator.elements_per_bucket = 768
    /\ \E n \in AllocCalls :
          Unwrap(alloc_calls[n].ret) + 256 = allocator.total_elements

\* ---- C28
\* C28 as stated: for every flag and every pointer p with 0 <= p < 2^29 the
\* element BrickgridElement::new(p, flag) gives back flag and p.
C28_Pointer29RoundTrip ==
    (fn_call.op = "BrickgridElement::new" /\ fn_call.pointer < 2^29) =>
       /\ fn_call.get_flag = fn_call.flag
       /\ fn_call.get_pointer = fn_call.pointer

\* C28: a brickgrid element is one 32-bit word holding the flag in its low 8
\* bits and a 24-bit cache-slot pointer above them: for every flag and every
\* pointer p with 0 <= p < 2^24, BrickgridElement::new(p, flag) gives back
\* flag and p and is the word to_brickgrid_element packs; of a larger
\* pointer only the low 24 bits are kept.
C28_Pointer24RoundTrip ==
    fn_call.op = "BrickgridElement::new" =>
       /\ fn_call.get_flag = fn_call.flag
       /\ fn_call.get_pointer = fn_call.pointer % 2^24
       /\ fn_call.pointer < 2^24 => fn_call.get_pointer = fn_call.pointer
       /\ fn_call.packed = fn_call.element

\* The largest 24-bit pointer was packed with the flag Loaded.
C28_Witness ==
    /\ fn_call.op = "BrickgridElement::new"
    /\ fn_call.pointer = 2^24 - 1
    /\ fn_call.flag = FlagLoaded
    /\ fn_call.get_pointer = 2^24 - 1

\* ---- C27
\* C27: for every grid position p and every chunk dimension d > 0,
\* grid_pos_to_world_pos returns on each axis chunk = floor(p / d) and
\* local = p - chunk * d, with 0 <= local < d.
C27_FloorDivision ==
    fn_call.op = "grid_pos_to_world_pos" =>
       \A i \in 1..3 :
          /\ fn_call.chunk_pos[i] = fn_call.grid_pos[i] \div fn_call.chunk_dims[i]
          /\ fn_call.block_pos[i] = fn_call.grid_pos[i] % fn_call.chunk_dims[i]
          /\ 0 <= fn_call.block_pos[i]
          /\ fn_call.block_pos[i] < fn_call.chunk_dims[i]

\* Whether the world holds a solid voxel at (x, y, z), in the coordinates of
\* the culled brick: inside 0..7 the brick itself, one step outside a face
\* the voxel across that face in the adjacent brick.
SolidAround(call, x, y, z) ==
    CASE x = 8  -> SolidIn(call.around["forward"], 0, y, z)
      [] x = -1 -> SolidIn(call.around["backward"], 7, y, z)
      [] y = 8  -> SolidIn(call.around["up"], x, 0, z)
      [] y = -1 -> SolidIn(call.around["down"], x, 7, z)
      [] z = 8  -> SolidIn(call.around["right"], x, y, 0)
      [] z = -1 -> SolidIn(call.around["left"], x, y, 7)
      [] OTHER  -> SolidIn(call.center, x, y, z)
Exposed(call, x, y, z) ==
    /\ SolidIn(call.center, x, y, z)
    /\ \E n \in { <<1, 0, 0>>, <<-1, 0, 0>>, <<0, 1, 0>>, <<0, -1, 0>>,
                 <<0, 0, 1>>, <<0, 0, -1>> } :
          ~SolidAround(call, x + n[1], y + n[2], z + n[3])
BitsOf(call) == { b \in 0..511 : (b % 32) \in call.bitmask_data[b \div 32] }

\* C26: the bit x + 8y + 64z of the culled bitmask is set exactly when the
\* voxel at (x, y, z) is solid and one of its six cardinal neighbours, taken
\* from the adjacent brick across a face, is empty; the colour list has one
\* entry per set bit, the colours of the voxels in ascending bit order; a
\* solid brick among solid bricks yields no colour, a lone voxel one bit and
\* one colour.
C26_SurfaceCulling ==
    fn_call.op = "cull_interior_voxels" =>
        LET bits == BitsOf(fn_call)
        IN  /\ \A x \in 0..7, y \in 0..7, z \in 0..7 :
                 (x + 8 * y + 64 * z) \in bits <=> Exposed(fn_call, x, y, z)
            /\ Len(fn_call.albedo_data) = Cardinality(bits)
            /\ \A b \in bits :
                 fn_call.albedo_data[Cardinality({ c \in bits : c < b }) + 1]
                     = <<b % 256, b \div 256, 3, 255>>
            /\ (/\ fn_call.center.kind = "solid"
                /\ \A d \in DOMAIN Directions : fn_call.around[d].kind = "solid")
                   => fn_call.albedo_data = << >>
            /\ (/\ fn_call.center.kind = "voxel"
                /\ \A d \in DOMAIN Directions : fn_call.around[d].kind = "empty")
                   => /\ bits = { fn_call.center.at }
                      /\ Len(fn_call.albedo_data) = 1

\* A solid brick whose only empty surroundings are every other voxel across
\* its front face: the 32 voxels facing them are kept, nothing else.
C26_Witness ==
    /\ fn_call.op = "cull_interior_voxels"
    /\ fn_call.center.kind = "solid"
    /\ fn_call.around["forward"].kind = "checker"
    /\ \A d \in DOMAIN Directions \ {"forward"} : fn_call.around[d].kind = "solid"
    /\ BitsOf(fn_call) = { b \in 0..511 : b % 8 = 7 /\ (((b \div 8) % 8) + (b \div 64)) % 2 = 1 }
    /\ Len(fn_call.albedo_data) = 32

\* C31: every batch of request records the producer wrote is handled by the
\* host at most once: the records process_feedback_buffer handles in one frame
\* were handled in no earlier frame.
C31_BatchHandledOnce ==
    \A j \in 1..Len(host_reads) :
       \A i \in 1..(j - 1) : host_reads[i].ids \cap host_reads[j].ids = {}

\* C32: after each drain the count written into the header of an upload queue
\* is the number of records this drain wrote to the queue, one per drained
\* grid index and one per drained brick payload, and is at most the capacity
\* max_upload_count.
C32_UploadHeaderCount ==
    /\ grid_upload_buffer.len = Cardinality(grid_upload_buffer.records)
    /\ grid_upload_buffer.len <= MaxUpload
    /\ upload_buffer.count = Len(upload_buffer.data)
    /\ upload_buffer.count <= MaxUpload

\* The elements held by the slots of the buckets k.. that are allocated.
RECURSIVE AllocatedElements(_, _)
AllocatedElements(a, k) ==
    IF k > a.bucket_count THEN 0
    ELSE Len(a.buckets[k].used) * a.buckets[k].slot_size + AllocatedElements(a, k + 1)

\* C33: after any sequence of try_alloc and try_dealloc calls, those
\* try_dealloc calls that return an error included, used_elements is the sum
\* of slot_size over the slots allocated at that moment and is at most
\* total_elements.
C33_UsedElementsAccounting ==
    ~alloc_panicked =>
        /\ allocator.used_elements = AllocatedElements(allocator, 1)
        /\ allocator.used_elements >= 0
        /\ allocator.used_elements <= allocator.total_elements

\* The calls that handed out address: try_alloc calls that returned it.
HandedOut(address) ==
    { k \in 1..Len(alloc_calls) :
        alloc_calls[k].op = "try_alloc" /\ alloc_calls[k].ret = Some(address) }

\* C34: in every reachable allocator state the free list and the used list of
\* each bucket are disjoint, hold no index twice and together hold exactly
\* the indices 0..slot_count-1; hence no slot is handed out twice without a
\* dealloc of it in between.
C34_FreeUsedPartition ==
    /\ \A k \in 1..allocator.bucket_count :
         LET b == allocator.buckets[k]
             F == { b.free[i] : i \in 1..Len(b.free) }
             U == { b.used[i] : i \in 1..Len(b.used) }
         IN  /\ F \cap U = {}
             /\ Cardinality(F) = Len(b.free)
             /\ Cardinality(U) = Len(b.used)
             /\ F \cup U = 0..(b.slot_count - 1)
    /\ \A i \in 1..Len(alloc_calls), j \in 1..Len(alloc_calls) :
         (/\ i < j
          /\ alloc_calls[i].op = "try_alloc" /\ alloc_calls[j].op = "try_alloc"
          /\ alloc_calls[i].ret # None /\ alloc_calls[i].ret = alloc_calls[j].ret)
            => \E d \in (i + 1)..(j - 1) :
                  /\ alloc_calls[d].op = "try_dealloc"
                  /\ alloc_calls[d].arg = Unwrap(alloc_calls[i].ret)
                  /\ alloc_calls[d].ret = "Ok"

\* A slot was handed out, given back and handed out again, while another
\* slot of its bucket stayed in use.
C34_Witness ==
    \E address \in UsedAddresses(allocator) :
       /\ Cardinality(HandedOut(address)) >= 2
       /\ \E k \in 1..allocator.bucket_count :
            /\ contains_address(allocator.buckets[k], address)
            /\ Len(allocator.buckets[k].used) >= 2
            /\ Len(allocator.buckets[k].free) >= 1

\* No two cache slots hold an entry of the same cell, there are as many Some
\* slots as Loaded cells, and no more than the cache has slots.
CacheCountsAgree(grid, cmap) ==
    /\ \A i, j \in SomeSlots(cmap) :
          cmap[i][1].grid_idx = cmap[j][1].grid_idx => i = j
    /\ Cardinality(SomeSlots(cmap)) = Cardinality(LoadedCells(grid))
    /\ Cardinality(SomeSlots(cmap)) <= CacheSize

\* C35: after any sequence of processed requests no two cache slots hold
\* entries with the same grid_idx, the number of Some cache slots equals the
\* number of grid cells with flag Loaded, and that number is at most the cache
\* capacity.
C35_CacheCountsAgree ==
    /\ CacheCountsAgree(brickgrid, brickmap_cache_map)
    /\ \A k \in RequestStarts :
          /\ CacheCountsAgree(Before(k).brickgrid, Before(k).brickmap_cache_map)
          /\ CacheCountsAgree(After(k).brickgrid, After(k).brickmap_cache_map)

\* The cache is full, and the last frame's request evicted one cell and
\* loaded another.
C35_Witness ==
    /\ Cardinality(SomeSlots(brickmap_cache_map)) = CacheSize
    /\ Cardinality(LoadedCells(brickgrid)) = CacheSize
    /\ \E j \in 1..Len(steps) : steps[j].op = "grid_write" /\ steps[j].val = 1
    /\ \E j \in 1..Len(steps) : steps[j].op = "cache_some"

\* The requests of the last frame whose brick has colours.
LoadRequests == { k \in RequestStarts : steps[k].val > 0 }

\* C36: when the bucket of 512-element slots has at least as many slots as
\* the cache, the try_alloc made while handling a request with 1..512 colours
\* never returns None: what the request evicts or refreshes is deallocated
\* before the allocation.
C36_AllocNeverFails ==
    shading_table_allocator.buckets[BucketCount].slot_count >= CacheSize =>
        /\ ~panicked
        /\ \A k \in LoadRequests :
              /\ steps[k].val \in 1..512
              /\ \E j \in StepsOf(k) : steps[j].op = "alloc" /\ steps[j].val = steps[k].val
              /\ \A j \in StepsOf(k) :
                    steps[j].op = "alloc" =>
                       \A i \in StepsOf(k) :
                          steps[i].op = "dealloc" => i < j

\* Every 512-element slot is taken, and the last request got its slot only
\* because the brick it evicted gave one back.
C36_Witness ==
    /\ shading_table_allocator.buckets[BucketCount].slot_count = CacheSize
    /\ shading_table_allocator.buckets[BucketCount].free = << >>
    /\ \E k \in LoadRequests :
         /\ \E j \in StepsOf(k) : steps[j].op = "dealloc" /\ steps[j].val = 1
         /\ \E j \in StepsOf(k) : steps[j].op = "alloc" /\ steps[j].val = 512
                                   /\ steps[j].idx < 512

\* C37: the grid record that carries flag Loaded with pointer k for a cell is
\* delivered in no earlier drain than the brick payload the same request
\* staged for slot k: when a drain delivers such a record, no payload for
\* slot k is left waiting in the payload queue.
C37_PayloadNotAfterGridRecord ==
    \A r \in brickgrid_unpack.records :
       FlagOf(r[2]) = 4 =>
          \A i \in 1..Len(brickmap_staged) :
             brickmap_staged[i].cache_idx # PointerOf(r[2])

\* The cells request k wrote and the payloads it staged.
CellsWrittenBy(k) == { steps[j].idx : j \in { i \in StepsOf(k) : steps[i].op = "grid_write" } }
StagedBy(k) == { j \in StepsOf(k) : steps[j].op = "stage" }

\* C38: when a frame handles at most R requests and max_upload_count is at
\* least 2 R, both the dirty set and the payload queue are empty at the end
\* of every processing call that returns: one request dirties at most two
\* cells and stages at most one payload.
C38_NoBacklogAtFrameEnd ==
    (/\ unpack_max_count >= 2 * MaxRequests
     /\ Cardinality(RequestStarts) <= MaxRequests
     /\ ~panicked) =>
        /\ brickgrid_staged = {}
        /\ brickmap_staged = << >>
        /\ \A k \in RequestStarts :
              /\ Cardinality(CellsWrittenBy(k)) <= 2
              /\ Cardinality(StagedBy(k)) <= 1

\* Every request of the frame dirtied two cells and staged a payload, so the
\* drain was filled to its limit.
C38_Witness ==
    /\ ~panicked
    /\ Cardinality(RequestStarts) = MaxRequests
    /\ \A k \in RequestStarts :
         Cardinality(CellsWrittenBy(k)) = 2 /\ Cardinality(StagedBy(k)) = 1
    /\ brickgrid_unpack.count = 2 * unpack_max_count
    /\ brickgrid_staged = {}
    /\ brickmap_staged = << >>

\* The last frame carried no request.
IdleFrame == steps = << >>

\* C39: when the drain runs every frame with a limit of at least one record
\* and from some frame on no request arrives, both the dirty set and the
\* payload queue are eventually empty; every staged payload is delivered
\* exactly once and in staging order: what a drain hands over, followed by
\* what it leaves staged, is what was staged before followed by what the
\* frame staged.
C39_BacklogDrains ==
    /\ (unpack_max_count >= 1 /\ <>[]IdleFrame)
          => <>[](brickgrid_staged = {} /\ brickmap_staged = << >>)
    /\ [][LET queue == brickmap_unpack'.data \o brickmap_staged'
          IN  /\ Len(queue) = Len(brickmap_staged) + Len(FrameStages)
              /\ SubSeq(queue, 1, Len(brickmap_staged)) = brickmap_staged
              /\ \A i \in 1..Len(FrameStages) :
                    queue[Len(brickmap_staged) + i].cache_idx = FrameStages[i].idx]_vars

\* A frame without requests delivered the last payload and the last dirty
\* cell that earlier frames had left behind.
C39_Witness ==
    /\ steps = << >>
    /\ brickmap_unpack.count = 1
    /\ brickgrid_unpack.records # {}
    /\ brickmap_staged = << >>
    /\ brickgrid_staged = {}

\* The cells and cache slots whose value differs between two manager states.
ChangedCells(b, a) == { c \in DOMAIN b.brickgrid : a.brickgrid[c] # b.brickgrid[c] }
ChangedSlots(b, a) ==
    { i \in DOMAIN b.brickmap_cache_map : a.brickmap_cache_map[i] # b.brickmap_cache_map[i] }

\* The cell whose entry occupies the ring slot the next request will use.
RingOccupant(b) ==
    IF IsSome(b.brickmap_cache_map[b.brickmap_cache_idx])
    THEN { Unwrap(b.brickmap_cache_map[b.brickmap_cache_idx]).grid_idx }
    ELSE {}

\* The cache slot a loaded cell points to.
SlotPointedBy(b, c) ==
    IF c \in DOMAIN b.brickgrid /\ FlagOf(b.brickgrid[c]) = FlagLoaded
    THEN { PointerOf(b.brickgrid[c]) }
    ELSE {}

\* C40: one request changes the grid word of at most two cells, the requested
\* cell and the cell whose entry occupied the target ring slot, and at most
\* two cache slots, the target ring slot and the slot the requested cell
\* pointed to; every other cell and slot keeps its value, and a request whose
\* colour list is empty leaves the ring index where it was.
C40_RequestFootprint ==
    \A k \in RequestStarts :
        LET b == Before(k)
            a == After(k)
        IN  /\ ChangedCells(b, a) \subseteq {steps[k].idx} \cup RingOccupant(b)
            /\ ChangedSlots(b, a) \subseteq
                   {b.brickmap_cache_idx} \cup SlotPointedBy(b, steps[k].idx)
            /\ Cardinality(ChangedCells(b, a)) <= 2
            /\ Cardinality(ChangedSlots(b, a)) <= 2
            /\ DOMAIN a.brickgrid = DOMAIN b.brickgrid
            /\ DOMAIN a.brickmap_cache_map = DOMAIN b.brickmap_cache_map
            /\ steps[k].val = 0 => a.brickmap_cache_idx = b.brickmap_cache_idx

\* A request for a brick that was already loaded in another slot evicted
\* the occupant of the ring slot: two cells and two cache slots changed.
C40_Witness ==
    \E k \in RequestStarts :
        /\ steps[k].val > 0
        /\ Cardinality(ChangedCells(Before(k), After(k))) = 2
        /\ Cardinality(ChangedSlots(Before(k), After(k))) = 2

====
